---------------------------- MODULE Spec2Model ----------------------------
(***************************************************************************)
(* A model of the yt-dlp wrapper crate:                                    *)
(*   - utils::executor::Executor::execute   (subprocess execution)         *)
(*   - model::format / model::Video         (format kinds and selection)   *)
(*   - fetcher::deps::ffmpeg::BuildFetcher  (static ffmpeg build table)    *)
(*   - fetcher::deps::youtube::GitHubFetcher (asset of a GitHub release)   *)
(*   - fetcher::deps::LibraryInstaller      (installation of the tools)    *)
(*   - utils::await_two, fetcher::Fetcher::fetch_asset                     *)
(*   - fetcher::deps::Libraries, Youtube::download_video                   *)
(* Each part has a specification of its own over the shared variables; a   *)
(* part that a specification does not exercise stays in its idle state.    *)
(***************************************************************************)
EXTENDS Integers, Sequences, FiniteSets, TLC

VARIABLES
    \* ---- Executor::execute and its child process
    child,        \* what the spawned program does: [out, err, sleep, status]
    timeout,      \* Executor.timeout, in ticks
    pc,           \* where execute is: idle, spawn, copy, wait, read_stderr, done
    childState,   \* none, running, exited, killed
    toOut,        \* bytes the child has still to write to its stdout
    toErr,        \* bytes the child has still to write to its stderr
    sleepLeft,    \* ticks the child has still to sleep
    stdoutOpen,   \* the child still holds the write end of its stdout pipe
    outPipe,      \* kernel buffer of the stdout pipe
    errPipe,      \* kernel buffer of the stderr pipe
    stdout,       \* the local Vec `stdout` of execute
    stderr,       \* the local Vec `stderr` of execute
    exit_code,    \* the local `exit_code` of execute (Option as a sequence)
    elapsed,      \* ticks since tokio::time::timeout was armed
    now,          \* ticks since execute was called (saturates above timeout)
    result,       \* what execute returned
    \* ---- Video and its formats
    formats,      \* Video.formats
    call,         \* the last call made on the model: [op, ret]
    prevCall,     \* the call that preceded the last classification call
    \* ---- the static ffmpeg build table
    platform,     \* the Platform asked for
    architecture, \* the Architecture asked for
    resolved,     \* the calls of select_asset so far: <<[by, ret], ...>>
    \* ---- the assets of a GitHub release
    release,      \* Release.assets
    picked,       \* what GitHubFetcher::select_asset returned: [ret]
    \* ---- LibraryInstaller and the file system it works on
    tool,         \* the tool being installed: youtube or ffmpeg
    custom_name,  \* the argument custom_name (Option as a sequence)
    bundle,       \* the entries of the archive: <<[name, is_file, exec, data], ...>>
    extracted,    \* what extract_zip returned
    ipc,          \* the step the installation is at
    disk,         \* the file system: path -> [kind, exec, data]
    wanted,       \* the WantedRelease of the resolve step (Option)
    steps,        \* the steps attempted so far: <<[step, ok], ...>>
    installed,    \* what the installation returned
    \* ---- utils::await_two
    handles,      \* the two tasks: [done, output]
    finished,     \* the tasks in the order they finished
    joined_first, \* what try_join! holds of the first handle (Option)
    joined_second, \* what try_join! holds of the second handle (Option)
    awaited,      \* what await_two returned
    \* ---- Fetcher::fetch_asset (on `disk`)
    stream,       \* the response: [body, sent], `sent` bytes have arrived
    fpc,          \* where fetch_asset is: idle, get, open, copy, done
    cursor,       \* the offset of the open file `dest`
    fetched,      \* what fetch_asset returned
    \* ---- Libraries::install_youtube / install_ffmpeg (on the installer)
    configured,   \* the file name of Libraries.youtube or Libraries.ffmpeg
    before,       \* the file system when the current call was made
    earlier,      \* what the earlier calls returned, and whether they downloaded
    \* ---- Youtube::download_video, two calls on one output directory
    dl,           \* per call: [output, pc, audio_name, video_name, ret]
    log           \* what the calls did so far: <<[call, op, file, ok], ...>>

execVars == <<child, timeout, pc, childState, toOut, toErr, sleepLeft,
              stdoutOpen, outPipe, errPipe, stdout, stderr, exit_code,
              elapsed, now, result>>

fmtVars == <<formats, call, prevCall>>

assetVars == <<platform, architecture, resolved>>

releaseVars == <<release, picked>>

\* The parts that were added to the model after the first three.
installVars == <<tool, custom_name, bundle, extracted, ipc, disk, wanted, steps,
                 installed>>

joinVars == <<handles, finished, joined_first, joined_second, awaited>>

fetchVars == <<stream, fpc, cursor, fetched>>

\* What the resolvers and the installation leave alone.
librariesVars == <<configured, before, earlier>>

downloadVars == <<dl, log>>

lastVars == <<librariesVars, downloadVars>>

laterVars == <<joinVars, fetchVars, lastVars>>

restVars == <<releaseVars, installVars, laterVars>>

\* What the steps of execute and of its child leave alone.
otherVars == <<fmtVars, assetVars, restVars>>

vars == <<execVars, fmtVars, assetVars, restVars>>

-----------------------------------------------------------------------------
(* Bounds of the model                                                     *)

MaxOut == 3
MaxErr == 3
MaxSleep == 2
MaxTimeout == 2
PipeCap == 2

-----------------------------------------------------------------------------
(* Option<T> is a sequence of length at most one.                          *)

None == <<>>

Some(v) == <<v>>

is_some(o) == o # <<>>

unwrap_or(o, d) == IF o = <<>> THEN d ELSE o[1]

-----------------------------------------------------------------------------
(* Executor::execute                                                       *)

\* A byte that can never occur in UTF-8 text.
BadByte == 255

\* The bytes 1..n, the last one replaced by BadByte when `bad`.
Payload(n, bad) == [i \in 1..n |-> IF bad /\ i = n THEN BadByte ELSE i]

Payloads(max) == {Payload(n, bad) : n \in 0..max, bad \in BOOLEAN}

\* std::process::ExitStatus: an exit code, or termination by a signal.
Exited(c) == [signaled |-> FALSE, code |-> c]

Signaled(s) == [signaled |-> TRUE, code |-> s]

ExitStatuses == {Exited(0), Exited(1), Signaled(9)}

\* ExitStatus::code
StatusCode(st) == IF st.signaled THEN None ELSE Some(st.code)

\* ExitStatus::success
StatusSuccess(st) == ~st.signaled /\ st.code = 0

\* String::from_utf8 on single-byte code units: Ok(text) or Err.
from_utf8(bytes) ==
    IF \A i \in 1..Len(bytes) : bytes[i] < 128
    THEN [ok |-> TRUE, text |-> bytes]
    ELSE [ok |-> FALSE, text |-> <<>>]

NoResult == [kind |-> "None", msg |-> "", code |-> 0, stdout |-> <<>>, stderr |-> <<>>]

\* Ok(ProcessOutput { stdout, stderr, code })
OkOutput(out, err, c) ==
    [kind |-> "Ok", msg |-> "", code |-> c, stdout |-> out, stderr |-> err]

\* Err(Error::Command(msg))
CommandError(m) ==
    [kind |-> "Command", msg |-> m, code |-> 0, stdout |-> <<>>, stderr |-> <<>>]

\* Err(Error::Command(format!("Process failed with code {}: {}", code, stderr)))
CommandFailed(c, err) ==
    [kind |-> "Command", msg |-> "Process failed with code", code |-> c,
     stdout |-> <<>>, stderr |-> err]

\* Err(Error::IO(_)), from any `?` on an io::Result
IOError == [kind |-> "IO", msg |-> "", code |-> 0, stdout |-> <<>>, stderr |-> <<>>]

\* Finish without the check of exit_code.success().
FinishIgnoringStatus(out, err, st) ==
    LET o == from_utf8(out)
        e == from_utf8(err)
        code == unwrap_or(StatusCode(st), -1)
    IN  IF ~o.ok THEN CommandError("Failed to parse stdout")
        ELSE IF ~e.ok THEN CommandError("Failed to parse stderr")
        ELSE OkOutput(o.text, e.text, code)

\* Finish with the status looked at before the buffers are decoded.
FinishStatusFirst(out, err, st) ==
    LET o == from_utf8(out)
        e == from_utf8(err)
        code == unwrap_or(StatusCode(st), -1)
    IN  IF ~StatusSuccess(st) THEN CommandFailed(code, err)
        ELSE IF ~o.ok THEN CommandError("Failed to parse stdout")
        ELSE IF ~e.ok THEN CommandError("Failed to parse stderr")
        ELSE OkOutput(o.text, e.text, code)

\* Lines 98..115 of execute: decode both buffers, then look at the status.
Finish(out, err, st) ==
    LET o == from_utf8(out)
        e == from_utf8(err)
        code == unwrap_or(StatusCode(st), -1)
    IN  IF ~o.ok THEN CommandError("Failed to parse stdout")
        ELSE IF ~e.ok THEN CommandError("Failed to parse stderr")
        ELSE IF StatusSuccess(st) THEN OkOutput(o.text, e.text, code)
        ELSE CommandFailed(code, e.text)

\* No call has been made yet.
NoCall == [op |-> "none", ret |-> <<>>]

FormatIdle ==
    /\ formats = <<>>
    /\ call = NoCall
    /\ prevCall = NoCall

AssetIdle ==
    /\ platform = [tag |-> "Unknown", raw |-> ""]
    /\ architecture = [tag |-> "Unknown", raw |-> ""]
    /\ resolved = <<>>

NoPick == [ret |-> "none"]

ReleaseIdle ==
    /\ release = <<>>
    /\ picked = NoPick

NoInstall == [kind |-> "none"]

InstallIdle ==
    /\ tool = "none"
    /\ custom_name = <<>>
    /\ bundle = <<>>
    /\ extracted = NoInstall
    /\ ipc = "idle"
    /\ disk = <<>>
    /\ wanted = <<>>
    /\ steps = <<>>
    /\ installed = NoInstall

JoinIdle ==
    /\ handles = <<>>
    /\ finished = <<>>
    /\ joined_first = <<>>
    /\ joined_second = <<>>
    /\ awaited = NoInstall

FetchIdle ==
    /\ stream = [body |-> <<>>, sent |-> 0]
    /\ fpc = "idle"
    /\ cursor = 0
    /\ fetched = NoInstall

LibrariesIdle ==
    /\ configured = <<>>
    /\ before = <<>>
    /\ earlier = <<>>

DownloadIdle ==
    /\ dl = <<>>
    /\ log = <<>>

LastIdle ==
    /\ LibrariesIdle
    /\ DownloadIdle

LaterIdle ==
    /\ JoinIdle
    /\ FetchIdle
    /\ LastIdle

RestIdle ==
    /\ ReleaseIdle
    /\ InstallIdle
    /\ LaterIdle

ExecInit ==
    /\ child \in [out : Payloads(MaxOut), err : Payloads(MaxErr),
                  sleep : 0..MaxSleep, status : ExitStatuses]
    /\ timeout \in 1..MaxTimeout
    /\ pc = "spawn"
    /\ childState = "none"
    /\ toOut = <<>>
    /\ toErr = <<>>
    /\ sleepLeft = 0
    /\ stdoutOpen = FALSE
    /\ outPipe = <<>>
    /\ errPipe = <<>>
    /\ stdout = <<>>
    /\ stderr = <<>>
    /\ exit_code = None
    /\ elapsed = 0
    /\ now = 0
    /\ result = NoResult
    /\ FormatIdle
    /\ AssetIdle
    /\ RestIdle

ExecIdle ==
    /\ child = [out |-> <<>>, err |-> <<>>, sleep |-> 0, status |-> Exited(0)]
    /\ timeout = 1
    /\ pc = "idle"
    /\ childState = "none"
    /\ toOut = <<>>
    /\ toErr = <<>>
    /\ sleepLeft = 0
    /\ stdoutOpen = FALSE
    /\ outPipe = <<>>
    /\ errPipe = <<>>
    /\ stdout = <<>>
    /\ stderr = <<>>
    /\ exit_code = None
    /\ elapsed = 0
    /\ now = 0
    /\ result = NoResult

\* command.spawn()? succeeded: the child runs with both streams piped.
Spawn ==
    /\ pc = "spawn"
    /\ pc' = "copy"
    /\ childState' = "running"
    /\ toOut' = child.out
    /\ toErr' = child.err
    /\ sleepLeft' = child.sleep
    /\ stdoutOpen' = TRUE
    /\ UNCHANGED <<otherVars, child, timeout, outPipe, errPipe, stdout, stderr, exit_code,
                   elapsed, now, result>>

\* command.spawn()? failed: no child, the io::Error is returned.
SpawnFail ==
    /\ pc = "spawn"
    /\ pc' = "done"
    /\ result' = IOError
    /\ UNCHANGED <<otherVars, child, timeout, childState, toOut, toErr, sleepLeft,
                   stdoutOpen, outPipe, errPipe, stdout, stderr, exit_code,
                   elapsed, now>>

\* The naive capture: stdout is read only once the child has exited.
CopyStdoutAfterExit ==
    /\ pc = "copy"
    /\ childState # "running"
    /\ outPipe # <<>>
    /\ stdout' = stdout \o outPipe
    /\ outPipe' = <<>>
    /\ UNCHANGED <<otherVars, child, timeout, pc, childState, toOut, toErr, sleepLeft,
                   stdoutOpen, errPipe, stderr, exit_code, elapsed, now, result>>

\* tokio::io::copy, one read: what the pipe holds goes to the Vec.
CopyStdout ==
    /\ pc = "copy"
    /\ outPipe # <<>>
    /\ stdout' = stdout \o outPipe
    /\ outPipe' = <<>>
    /\ UNCHANGED <<otherVars, child, timeout, pc, childState, toOut, toErr, sleepLeft,
                   stdoutOpen, errPipe, stderr, exit_code, elapsed, now, result>>

\* tokio::io::copy sees end-of-file: every write end of the pipe is closed.
\* Only now is the timeout armed around child.wait().
CopyEof ==
    /\ pc = "copy"
    /\ outPipe = <<>>
    /\ ~stdoutOpen
    /\ pc' = "wait"
    /\ elapsed' = 0
    /\ UNCHANGED <<otherVars, child, timeout, childState, toOut, toErr, sleepLeft,
                   stdoutOpen, outPipe, errPipe, stdout, stderr, exit_code,
                   now, result>>

\* timeout(self.timeout, child.wait()) is Ok(result): the child has exited.
WaitExit ==
    /\ pc = "wait"
    /\ childState = "exited"
    /\ exit_code' = Some(child.status)
    /\ pc' = "read_stderr"
    /\ UNCHANGED <<otherVars, child, timeout, childState, toOut, toErr, sleepLeft,
                   stdoutOpen, outPipe, errPipe, stdout, stderr, elapsed,
                   now, result>>

\* timeout(..) is Err(Elapsed): child.kill().await, then the error.
WaitTimeout ==
    /\ pc = "wait"
    /\ childState = "running"
    /\ elapsed >= timeout
    /\ childState' = "killed"
    /\ stdoutOpen' = FALSE
    /\ result' = CommandError("Process timed out")
    /\ pc' = "done"
    /\ UNCHANGED <<otherVars, child, timeout, toOut, toErr, sleepLeft, outPipe, errPipe,
                   stdout, stderr, exit_code, elapsed, now>>

\* reader.read_to_end, one read.
ReadStderr ==
    /\ pc = "read_stderr"
    /\ errPipe # <<>>
    /\ stderr' = stderr \o errPipe
    /\ errPipe' = <<>>
    /\ UNCHANGED <<otherVars, child, timeout, pc, childState, toOut, toErr, sleepLeft,
                   stdoutOpen, outPipe, stdout, exit_code, elapsed, now, result>>

\* read_to_end sees end-of-file (the child is gone): decode and return.
StderrEof ==
    /\ pc = "read_stderr"
    /\ errPipe = <<>>
    /\ childState # "running"
    /\ result' = Finish(stdout, stderr, exit_code[1])
    /\ pc' = "done"
    /\ UNCHANGED <<otherVars, child, timeout, childState, toOut, toErr, sleepLeft,
                   stdoutOpen, outPipe, errPipe, stdout, stderr, exit_code,
                   elapsed, now>>

\* Any `?` on an io::Result after the spawn: copy, wait (or kill), read_to_end.
\* The Child is dropped without kill_on_drop: a running child keeps running.
ExecIOError ==
    /\ pc \in {"copy", "wait", "read_stderr"}
    /\ result' = IOError
    /\ pc' = "done"
    /\ UNCHANGED <<otherVars, child, timeout, childState, toOut, toErr, sleepLeft,
                   stdoutOpen, outPipe, errPipe, stdout, stderr, exit_code,
                   elapsed, now>>

-----------------------------------------------------------------------------
(* The child process and the clock                                         *)

ChildRuns == childState = "running" /\ pc # "done"

ChildWriteStdout ==
    /\ ChildRuns
    /\ toOut # <<>>
    /\ Len(outPipe) < PipeCap
    /\ outPipe' = Append(outPipe, Head(toOut))
    /\ toOut' = Tail(toOut)
    /\ UNCHANGED <<otherVars, child, timeout, pc, childState, toErr, sleepLeft, stdoutOpen,
                   errPipe, stdout, stderr, exit_code, elapsed, now, result>>

ChildWriteStderr ==
    /\ ChildRuns
    /\ toErr # <<>>
    /\ Len(errPipe) < PipeCap
    /\ errPipe' = Append(errPipe, Head(toErr))
    /\ toErr' = Tail(toErr)
    /\ UNCHANGED <<otherVars, child, timeout, pc, childState, toOut, sleepLeft, stdoutOpen,
                   outPipe, stdout, stderr, exit_code, elapsed, now, result>>

\* The child closes its stdout itself, before it exits.
ChildCloseStdout ==
    /\ ChildRuns
    /\ toOut = <<>>
    /\ stdoutOpen
    /\ stdoutOpen' = FALSE
    /\ UNCHANGED <<otherVars, child, timeout, pc, childState, toOut, toErr, sleepLeft,
                   outPipe, errPipe, stdout, stderr, exit_code, elapsed, now,
                   result>>

\* The child ends; the kernel closes what it held.
ChildExit ==
    /\ ChildRuns
    /\ toOut = <<>>
    /\ toErr = <<>>
    /\ sleepLeft = 0
    /\ childState' = "exited"
    /\ stdoutOpen' = FALSE
    /\ UNCHANGED <<otherVars, child, timeout, pc, toOut, toErr, sleepLeft, outPipe, errPipe,
                   stdout, stderr, exit_code, elapsed, now, result>>

\* A write the child may be stuck in.
ChildBlocked ==
    \/ toOut # <<>> /\ Len(outPipe) >= PipeCap
    \/ toErr # <<>> /\ Len(errPipe) >= PipeCap

Min(a, b) == IF a < b THEN a ELSE b

\* One tick of time passes while the child sleeps or is stuck in a write.
\* The timer of execute runs only once it is armed.
Tick ==
    /\ ChildRuns
    /\ sleepLeft > 0 \/ ChildBlocked
    /\ sleepLeft' = IF sleepLeft > 0 THEN sleepLeft - 1 ELSE 0
    /\ now' = Min(now + 1, timeout + 1)
    /\ elapsed' = IF pc = "wait" THEN Min(elapsed + 1, timeout) ELSE elapsed
    /\ UNCHANGED <<otherVars, child, timeout, pc, childState, toOut, toErr, stdoutOpen,
                   outPipe, errPipe, stdout, stderr, exit_code, result>>

ExecStep ==
    \/ Spawn
    \/ CopyStdout
    \/ CopyEof
    \/ WaitExit
    \/ WaitTimeout
    \/ ReadStderr
    \/ StderrEof

ExecFault ==
    \/ SpawnFail
    \/ ExecIOError

ChildStep ==
    \/ ChildWriteStdout
    \/ ChildWriteStderr
    \/ ChildCloseStdout
    \/ ChildExit

ExecNext ==
    \/ ExecStep
    \/ ExecFault
    \/ ChildStep
    \/ Tick

ExecSpec == ExecInit /\ [][ExecNext]_vars

\* The runtime polls a ready future, the kernel schedules a runnable child,
\* and time passes.
ExecFairSpec ==
    /\ ExecSpec
    /\ WF_vars(ExecStep)
    /\ WF_vars(ChildStep)
    /\ WF_vars(Tick)

-----------------------------------------------------------------------------
(* Claims about Executor::execute                                          *)

ValidText(bytes) == from_utf8(bytes).ok

\* The child of C1: it exits with code 0 by itself within the timeout, its
\* output is text, and its stderr stays below one pipe buffer.
C1_Child ==
    /\ StatusSuccess(child.status)
    /\ Len(child.err) < PipeCap
    /\ ValidText(child.out)
    /\ ValidText(child.err)
    /\ child.sleep < timeout

\* C1: execute does not deadlock on large standard output.  For a child that
\* writes any number of bytes to stdout (more than the pipe holds included),
\* less than one pipe buffer to stderr, and exits with code 0, execute
\* eventually returns, and unless an I/O call of its own failed it returns Ok
\* with exactly the bytes the child wrote to stdout, in order.
C1_NoDeadlockOnLargeStdout ==
    [](C1_Child =>
         <>(/\ pc = "done"
            /\ \/ result = IOError
               \/ result = OkOutput(child.out, child.err, 0)))

\* A child whose stdout exceeds the pipe has been captured in full.
C1_Witness ==
    /\ pc = "done"
    /\ C1_Child
    /\ Len(child.out) > PipeCap
    /\ result.kind = "Ok"
    /\ result.stdout = child.out

\* The child was still running after `timeout` ticks since execute was called.
Overdue == now > timeout

\* C2: for every child that has not exited when the timeout has elapsed since
\* execute was called, execute returns the timeout failure and the child is
\* no longer running when execute returns (I/O failures of execute aside).
C2_TimeoutSinceCall ==
    (pc = "done" /\ Overdue /\ result.kind # "IO")
        => /\ result = CommandError("Process timed out")
           /\ childState # "running"

\* C3: execute returns Ok only when the child exited successfully; when the
\* child exits with a non-zero code and its output is text, execute returns a
\* Command error carrying that code and the captured stderr, and no stdout.
C3_NonZeroExitIsCommandError ==
    /\ result.kind = "Ok"
         => /\ pc = "done"
            /\ childState = "exited"
            /\ StatusSuccess(child.status)
    /\ ( /\ pc = "done"
         /\ childState = "exited"
         /\ ~StatusSuccess(child.status)
         /\ ValidText(child.out)
         /\ ValidText(child.err)
         /\ result.kind # "IO" )
         => /\ result.kind = "Command"
            /\ result.msg = "Process failed with code"
            /\ result.code = unwrap_or(StatusCode(child.status), -1)
            /\ ~child.status.signaled => result.code = child.status.code
            /\ result.stderr = child.err
            /\ result.stdout = <<>>

\* A child that wrote to both streams and exited with code 1 was reported.
C3_Witness ==
    /\ pc = "done"
    /\ childState = "exited"
    /\ child.status = Exited(1)
    /\ child.out # <<>>
    /\ child.err # <<>>
    /\ result.kind = "Command"
    /\ result.code = 1
    /\ result.stderr = child.err

\* execute got as far as decoding: both streams were read to their end.
Decoded == pc = "done" /\ exit_code # None /\ result.kind # "IO"

\* C23: when the bytes captured from stdout or from stderr are not valid
\* UTF-8, execute returns the Command error of the decoding (never Ok),
\* whatever the exit status of the child is: neither the exit code nor the
\* captured stderr is reported then.
C23_UndecodableIsCommandError ==
    /\ result.kind = "Ok" => ValidText(stdout) /\ ValidText(stderr)
    /\ (Decoded /\ ~ValidText(stdout))
         => result = CommandError("Failed to parse stdout")
    /\ (Decoded /\ ValidText(stdout) /\ ~ValidText(stderr))
         => result = CommandError("Failed to parse stderr")

\* A child that failed with code 1 and wrote undecodable bytes to stderr was
\* reported as a decoding failure.
C23_Witness ==
    /\ Decoded
    /\ child.status = Exited(1)
    /\ stderr = child.err
    /\ ~ValidText(stderr)
    /\ result = CommandError("Failed to parse stderr")

\* The child has a full stderr pipe in front of it and nothing left to write
\* to stdout, which it still holds open, while execute waits in
\* tokio::io::copy for bytes or the end of stdout.
StderrDeadlock ==
    /\ pc = "copy"
    /\ childState = "running"
    /\ stdoutOpen
    /\ outPipe = <<>>
    /\ toOut = <<>>
    /\ toErr # <<>>
    /\ Len(errPipe) >= PipeCap

\* C24: the child is never blocked writing to a full stderr pipe while
\* execute is blocked reading stdout, whatever amounts the child writes to
\* its two streams.
C24_NoStderrDeadlock == ~StderrDeadlock

\* C25: on every return of execute after a successful spawn the child has
\* terminated; no return path leaves a running child behind.
C25_NoChildLeftRunning ==
    (pc = "done" /\ childState # "none") => childState # "running"

-----------------------------------------------------------------------------
(* model::format::Format and model::Video                                  *)

\* An f64: a number, or NaN.
F(n) == [nan |-> FALSE, v |-> n]

NaN == [nan |-> TRUE, v |-> 0]

\* i64::cmp
IntCmp(a, b) == IF a < b THEN "Less" ELSE IF a > b THEN "Greater" ELSE "Equal"

\* A float comparison in which NaN is below every number.
OrderedFloatCmpNaNLess(x, y) ==
    IF x.nan THEN "Less"
    ELSE IF y.nan THEN "Greater"
    ELSE IntCmp(x.v, y.v)

\* OrderedFloat::cmp: NaN equals itself and is above every number.
OrderedFloatCmp(x, y) ==
    IF x.nan THEN (IF y.nan THEN "Equal" ELSE "Greater")
    ELSE IF y.nan THEN "Less"
    ELSE IntCmp(x.v, y.v)

\* A Format, with the fields that classification and selection read.
MkFormat(murl, frags, acodec, vcodec, q, h, fps, vbr, abr, asr, ch) ==
    [manifest_url |-> murl, fragments |-> frags,
     audio_codec |-> acodec, video_codec |-> vcodec,
     quality |-> q, height |-> h, fps |-> fps, video_rate |-> vbr,
     audio_rate |-> abr, asr |-> asr, audio_channels |-> ch]

\* format_type with the fragments looked at before the manifest URL.
format_type_storyboard_first(f) ==
    IF is_some(f.fragments) THEN "Storyboard"
    ELSE IF is_some(f.manifest_url) THEN "Manifest"
    ELSE LET audio == is_some(f.audio_codec)
             video == is_some(f.video_codec)
         IN  IF audio /\ video THEN "AudioAndVideo"
             ELSE IF audio THEN "Audio"
             ELSE IF video THEN "Video"
             ELSE "Unknown"

\* Format::format_type
format_type(f) ==
    IF is_some(f.manifest_url) THEN "Manifest"
    ELSE IF is_some(f.fragments) THEN "Storyboard"
    ELSE LET audio == is_some(f.audio_codec)
             video == is_some(f.video_codec)
         IN  IF audio /\ video THEN "AudioAndVideo"
             ELSE IF audio THEN "Audio"
             ELSE IF video THEN "Video"
             ELSE "Unknown"

\* is_video that also takes the formats carrying both streams.
FormatType_is_video_or_both(t) == t \in {"Video", "AudioAndVideo"}

\* FormatType::is_video
FormatType_is_video(t) == t = "Video"

\* FormatType::is_audio
FormatType_is_audio(t) == t = "Audio"

\* Format::is_video
is_video(f) == FormatType_is_video(format_type(f))

\* Format::is_audio
is_audio(f) == FormatType_is_audio(format_type(f))

\* The comparator with the height looked at before the quality.
compare_video_formats_height_first(a, b) ==
    LET cmp_height == IntCmp(unwrap_or(a.height, 0), unwrap_or(b.height, 0))
        cmp_quality == OrderedFloatCmp(unwrap_or(a.quality, F(0)),
                                       unwrap_or(b.quality, F(0)))
        cmp_fps == OrderedFloatCmp(unwrap_or(a.fps, F(0)), unwrap_or(b.fps, F(0)))
    IN  IF cmp_height # "Equal" THEN cmp_height
        ELSE IF cmp_quality # "Equal" THEN cmp_quality
        ELSE IF cmp_fps # "Equal" THEN cmp_fps
        ELSE OrderedFloatCmp(unwrap_or(a.video_rate, F(0)),
                             unwrap_or(b.video_rate, F(0)))

\* Video::compare_video_formats
compare_video_formats(a, b) ==
    LET cmp_quality == OrderedFloatCmp(unwrap_or(a.quality, F(0)),
                                       unwrap_or(b.quality, F(0)))
        cmp_height == IntCmp(unwrap_or(a.height, 0), unwrap_or(b.height, 0))
        cmp_fps == OrderedFloatCmp(unwrap_or(a.fps, F(0)), unwrap_or(b.fps, F(0)))
    IN  IF cmp_quality # "Equal" THEN cmp_quality
        ELSE IF cmp_height # "Equal" THEN cmp_height
        ELSE IF cmp_fps # "Equal" THEN cmp_fps
        ELSE OrderedFloatCmp(unwrap_or(a.video_rate, F(0)),
                             unwrap_or(b.video_rate, F(0)))

\* The comparator with the sample rate looked at before the bitrate.
compare_audio_formats_asr_first(a, b) ==
    LET cmp_quality == OrderedFloatCmp(unwrap_or(a.quality, F(0)),
                                       unwrap_or(b.quality, F(0)))
        cmp_abr == OrderedFloatCmp(unwrap_or(a.audio_rate, F(0)),
                                   unwrap_or(b.audio_rate, F(0)))
        cmp_asr == IntCmp(unwrap_or(a.asr, 0), unwrap_or(b.asr, 0))
    IN  IF cmp_quality # "Equal" THEN cmp_quality
        ELSE IF cmp_asr # "Equal" THEN cmp_asr
        ELSE IF cmp_abr # "Equal" THEN cmp_abr
        ELSE IntCmp(unwrap_or(a.audio_channels, 0), unwrap_or(b.audio_channels, 0))

\* Video::compare_audio_formats
compare_audio_formats(a, b) ==
    LET cmp_quality == OrderedFloatCmp(unwrap_or(a.quality, F(0)),
                                       unwrap_or(b.quality, F(0)))
        cmp_abr == OrderedFloatCmp(unwrap_or(a.audio_rate, F(0)),
                                   unwrap_or(b.audio_rate, F(0)))
        cmp_asr == IntCmp(unwrap_or(a.asr, 0), unwrap_or(b.asr, 0))
    IN  IF cmp_quality # "Equal" THEN cmp_quality
        ELSE IF cmp_abr # "Equal" THEN cmp_abr
        ELSE IF cmp_asr # "Equal" THEN cmp_asr
        ELSE IntCmp(unwrap_or(a.audio_channels, 0), unwrap_or(b.audio_channels, 0))

\* The closure handed to max_by / min_by: |a, b| self.compare_*_formats(a, b)
Compare(which, a, b) ==
    IF which = "video" THEN compare_video_formats(a, b)
    ELSE compare_audio_formats(a, b)

\* self.formats.iter().filter(..): the positions that pass, in list order.
RECURSIVE FilterFrom(_, _, _)
FilterFrom(fs, which, i) ==
    IF i > Len(fs) THEN <<>>
    ELSE LET rest == FilterFrom(fs, which, i + 1)
             pass == IF which = "video" THEN is_video(fs[i]) ELSE is_audio(fs[i])
         IN  IF pass THEN <<i>> \o rest ELSE rest

\* The iterator without its filter.
FilterNothing(fs, which) == [i \in 1..Len(fs) |-> i]

Filter(fs, which) == FilterFrom(fs, which, 1)

\* Iterator::max_by is a reduce that keeps x only when compare(x, y) is
\* Greater; Iterator::min_by keeps x unless compare(x, y) is Greater.
RECURSIVE ReduceBy(_, _, _, _, _)
ReduceBy(fs, which, max, acc, rest) ==
    IF rest = <<>> THEN acc
    ELSE LET y == Head(rest)
             c == Compare(which, fs[acc], fs[y])
             keep == IF max THEN c = "Greater" ELSE c # "Greater"
         IN  ReduceBy(fs, which, max, IF keep THEN acc ELSE y, Tail(rest))

\* max_by over the iterator taken from its back: the first of several
\* maximal elements is the one kept.
max_by_from_the_back(fs, which, idx) ==
    IF idx = <<>> THEN None
    ELSE Some(ReduceBy(fs, which, TRUE, idx[Len(idx)],
                       [i \in 1..(Len(idx) - 1) |-> idx[Len(idx) - i]]))

max_by(fs, which, idx) ==
    IF idx = <<>> THEN None
    ELSE Some(ReduceBy(fs, which, TRUE, Head(idx), Tail(idx)))

min_by(fs, which, idx) ==
    IF idx = <<>> THEN None
    ELSE Some(ReduceBy(fs, which, FALSE, Head(idx), Tail(idx)))

\* best_video_format over every format, video or not.
best_video_format_unfiltered(fs) == max_by(fs, "video", FilterNothing(fs, "video"))

\* Video::best_video_format, as the position of the format it returns.
best_video_format(fs) == max_by(fs, "video", Filter(fs, "video"))

\* Video::best_audio_format
best_audio_format(fs) == max_by(fs, "audio", Filter(fs, "audio"))

\* Video::worst_video_format
worst_video_format(fs) == min_by(fs, "video", Filter(fs, "video"))

\* Video::worst_audio_format
worst_audio_format(fs) == min_by(fs, "audio", Filter(fs, "audio"))

-----------------------------------------------------------------------------
(* Calls on the model                                                      *)

Returned(op, ret) == [op |-> op, ret |-> ret]

CallFormatType ==
    /\ formats # <<>>
    /\ call' = Returned("format_type", format_type(formats[1]))
    /\ prevCall' = call
    /\ UNCHANGED <<formats, execVars, assetVars, restVars>>

CallIsVideo ==
    /\ formats # <<>>
    /\ call' = Returned("is_video", is_video(formats[1]))
    /\ prevCall' = call
    /\ UNCHANGED <<formats, execVars, assetVars, restVars>>

CallIsAudio ==
    /\ formats # <<>>
    /\ call' = Returned("is_audio", is_audio(formats[1]))
    /\ prevCall' = call
    /\ UNCHANGED <<formats, execVars, assetVars, restVars>>

CallBestVideo ==
    /\ call' = Returned("best_video_format", best_video_format(formats))
    /\ UNCHANGED <<formats, prevCall, execVars, assetVars, restVars>>

CallBestAudio ==
    /\ call' = Returned("best_audio_format", best_audio_format(formats))
    /\ UNCHANGED <<formats, prevCall, execVars, assetVars, restVars>>

CallWorstVideo ==
    /\ call' = Returned("worst_video_format", worst_video_format(formats))
    /\ UNCHANGED <<formats, prevCall, execVars, assetVars, restVars>>

CallWorstAudio ==
    /\ call' = Returned("worst_audio_format", worst_audio_format(formats))
    /\ UNCHANGED <<formats, prevCall, execVars, assetVars, restVars>>

\* compare_video_formats on every pair of the list.
CallCompareVideo ==
    /\ call' = Returned("compare_video_formats",
                        [i \in 1..Len(formats) |-> [j \in 1..Len(formats) |->
                            compare_video_formats(formats[i], formats[j])]])
    /\ UNCHANGED <<formats, prevCall, execVars, assetVars, restVars>>

\* compare_audio_formats on every pair of the list.
CallCompareAudio ==
    /\ call' = Returned("compare_audio_formats",
                        [i \in 1..Len(formats) |-> [j \in 1..Len(formats) |->
                            compare_audio_formats(formats[i], formats[j])]])
    /\ UNCHANGED <<formats, prevCall, execVars, assetVars, restVars>>

CallSelector ==
    \/ CallBestVideo
    \/ CallBestAudio
    \/ CallWorstVideo
    \/ CallWorstAudio

-----------------------------------------------------------------------------
(* Classification: one format, every shape of the four deciding fields    *)

OptUrls == {None, Some(""), Some("https://manifest")}

OptFragments == {None, Some(<<>>), Some(<<[url |-> "https://frag", duration |-> 1]>>)}

OptCodecs(name) == {None, Some(name)}

ClassifyPool ==
    {MkFormat(m, fr, a, v, Some(F(1)), None, None, None, None, None, None) :
        m \in OptUrls, fr \in OptFragments,
        a \in OptCodecs("opus"), v \in OptCodecs("vp9")}

ClassifyInit ==
    /\ formats \in {<<f>> : f \in ClassifyPool}
    /\ call = NoCall
    /\ prevCall = NoCall
    /\ ExecIdle
    /\ AssetIdle
    /\ RestIdle

ClassifyNext ==
    \/ CallFormatType
    \/ CallIsVideo
    \/ CallIsAudio
    \/ CallBestVideo
    \/ CallBestAudio

ClassifySpec == ClassifyInit /\ [][ClassifyNext]_vars

-----------------------------------------------------------------------------
(* Selection: lists of formats of every kind                               *)

MaxFormats == 3

\* Codecs of a video-only, an audio-only, a combined format, and a manifest
\* that names both codecs.
SelectShapes ==
    {<<None, None, Some("vp9")>>, <<None, Some("opus"), None>>,
     <<None, Some("opus"), Some("vp9")>>,
     <<Some("https://manifest"), Some("opus"), Some("vp9")>>}

\* Quality 1.0 or 2.0; the second key (height, audio bitrate) low or high.
SelectPool ==
    {MkFormat(s[1], None, s[2], s[3], Some(F(q)), Some(h), None, None,
              Some(F(h)), None, None) :
        s \in SelectShapes, q \in {1, 2}, h \in {480, 1080}}

RECURSIVE ListsUpTo(_, _)
ListsUpTo(S, n) ==
    IF n = 0 THEN {<<>>}
    ELSE LET shorter == ListsUpTo(S, n - 1)
         IN  shorter \cup {Append(l, x) : l \in {m \in shorter : Len(m) = n - 1}, x \in S}

SelectInit ==
    /\ formats \in ListsUpTo(SelectPool, MaxFormats)
    /\ call = NoCall
    /\ prevCall = NoCall
    /\ ExecIdle
    /\ AssetIdle
    /\ RestIdle

SelectNext == CallSelector

SelectSpec == SelectInit /\ [][SelectNext]_vars

-----------------------------------------------------------------------------
(* Comparison: pairs and triples of formats with missing and NaN keys      *)

OptFloats(S) == {None} \cup {Some(F(n)) : n \in S}

OptInts(S) == {None} \cup {Some(n) : n \in S}

\* Video-only formats: quality, height, fps and video bitrate vary.
VideoKeyed ==
    {MkFormat(None, None, None, Some("vp9"), q, h, fps, vbr, None, None, None) :
        q \in OptFloats({-1, 1}) \cup {Some(NaN)},
        h \in OptInts({0, 1}),
        fps \in OptFloats({1}) \cup {Some(NaN)},
        vbr \in OptFloats({1})}

\* Audio-only formats: quality, audio bitrate, sample rate and channels vary.
AudioKeyed ==
    {MkFormat(None, None, Some("opus"), None, q, None, None, None, abr, asr, ch) :
        q \in OptFloats({-1, 1}) \cup {Some(NaN)},
        abr \in OptFloats({0, 1}),
        asr \in OptInts({1}),
        ch \in OptInts({1})}

PairPool == VideoKeyed \cup AudioKeyed

TriplePool ==
    {f \in PairPool :
        /\ f.quality \in {None, Some(F(1)), Some(NaN)}
        /\ f.height \in {None, Some(1)}
        /\ f.audio_rate \in {None, Some(F(1))}
        /\ f.fps = None /\ f.video_rate = None
        /\ f.asr = None /\ f.audio_channels = None}

CompareInit ==
    /\ \/ \E a \in PairPool, b \in PairPool : formats = <<a, b>>
       \/ \E a \in TriplePool, b \in TriplePool, c \in TriplePool :
             formats = <<a, b, c>>
    /\ call = NoCall
    /\ prevCall = NoCall
    /\ ExecIdle
    /\ AssetIdle
    /\ RestIdle

CompareNext ==
    \/ CallCompareVideo
    \/ CallCompareAudio
    \/ CallSelector

CompareSpec == CompareInit /\ [][CompareNext]_vars

-----------------------------------------------------------------------------
(* Claims about classification                                             *)

Kinds == {"Audio", "Video", "AudioAndVideo", "Manifest", "Storyboard", "Unknown"}

\* The kind the codecs alone give.
KindByCodecs(f) ==
    CASE f.audio_codec # None /\ f.video_codec # None -> "AudioAndVideo"
      [] f.audio_codec # None /\ f.video_codec = None -> "Audio"
      [] f.audio_codec = None /\ f.video_codec # None -> "Video"
      [] OTHER -> "Unknown"

\* C4 as stated: a non-empty manifest URL gives Manifest, otherwise a
\* non-empty fragment list gives Storyboard, otherwise the codecs decide; a
\* URL or a list that is present but empty leaves the decision to the codecs.
C4_EmptyLeftToCodecs ==
    call.op = "format_type" =>
        LET f == formats[1]
        IN  call.ret =
              IF f.manifest_url \notin {None, Some("")} THEN "Manifest"
              ELSE IF f.fragments \notin {None, Some(<<>>)} THEN "Storyboard"
              ELSE KindByCodecs(f)

\* C4, amended: format_type is total and follows the ordered first-match
\* rule on presence: a manifest URL that is present (empty or not) gives
\* Manifest; otherwise a fragment list that is present (empty or not) gives
\* Storyboard; otherwise the codecs decide; two calls on the same value give
\* the same kind.
C4_FirstMatchOnPresence ==
    /\ call.op = "format_type" =>
         LET f == formats[1]
         IN  /\ call.ret \in Kinds
             /\ f.manifest_url # None => call.ret = "Manifest"
             /\ f.manifest_url = None /\ f.fragments # None
                  => call.ret = "Storyboard"
             /\ f.manifest_url = None /\ f.fragments = None
                  => call.ret = KindByCodecs(f)
    /\ call.op = "format_type" /\ prevCall.op = "format_type"
         => call.ret = prevCall.ret

\* An audio format with an empty manifest URL was classified, twice.
C4_Witness ==
    /\ call.op = "format_type"
    /\ prevCall.op = "format_type"
    /\ formats[1].manifest_url = Some("")
    /\ formats[1].audio_codec # None
    /\ formats[1].video_codec = None
    /\ call.ret = "Manifest"

\* C5 as stated: is_video holds exactly for the kinds Video and
\* AudioAndVideo, is_audio exactly for Audio and AudioAndVideo, so a format
\* with both codecs is a candidate of best_video_format and best_audio_format.
C5_BothCountsAsEither ==
    LET kind == format_type(formats[1])
    IN  /\ call.op = "is_video" => (call.ret <=> kind \in {"Video", "AudioAndVideo"})
        /\ call.op = "is_audio" => (call.ret <=> kind \in {"Audio", "AudioAndVideo"})
        /\ call.op \in {"best_video_format", "best_audio_format"}
             /\ kind = "AudioAndVideo" => call.ret = Some(1)

\* C5, amended: is_video holds exactly for the kind Video (video only) and
\* is_audio exactly for the kind Audio (audio only); a format carrying both
\* codecs passes neither and is a candidate of neither best_video_format nor
\* best_audio_format.
C5_OnlyKindPasses ==
    LET kind == format_type(formats[1])
    IN  /\ call.op = "is_video" => (call.ret <=> kind = "Video")
        /\ call.op = "is_audio" => (call.ret <=> kind = "Audio")
        /\ call.op = "best_video_format"
             => call.ret = IF kind = "Video" THEN Some(1) ELSE None
        /\ call.op = "best_audio_format"
             => call.ret = IF kind = "Audio" THEN Some(1) ELSE None

\* A format with both codecs was refused by is_video.
C5_Witness ==
    /\ call.op = "is_video"
    /\ format_type(formats[1]) = "AudioAndVideo"
    /\ call.ret = FALSE

-----------------------------------------------------------------------------
(* Claims about selection                                                  *)

Selectors == {"best_video_format", "worst_video_format",
              "best_audio_format", "worst_audio_format"}

\* The comparator and the predicate a selector works with.
WhichOf(op) == IF op \in {"best_video_format", "worst_video_format"}
               THEN "video" ELSE "audio"

IsBest(op) == op \in {"best_video_format", "best_audio_format"}

\* The positions of the list that pass the predicate of the kind.
Passing(which) ==
    {i \in 1..Len(formats) :
        IF which = "video" THEN is_video(formats[i]) ELSE is_audio(formats[i])}

\* A float key as two numbers: whether it is NaN (NaN lies above every
\* number), then its value; a missing value is 0.
KeyNum(o) == IF o = None THEN <<0, 0>> ELSE IF o[1].nan THEN <<1, 0>> ELSE <<0, o[1].v>>

\* An integer key; a missing value is 0.
KeyInt(o) == IF o = None THEN <<0>> ELSE <<o[1]>>

\* The key tuple of a format under the comparator of the kind, flattened.
Keys(which, f) ==
    IF which = "video"
    THEN KeyNum(f.quality) \o KeyInt(f.height) \o KeyNum(f.fps) \o KeyNum(f.video_rate)
    ELSE KeyNum(f.quality) \o KeyNum(f.audio_rate) \o KeyInt(f.asr)
           \o KeyInt(f.audio_channels)

\* The first key (the quality) and the second key of a format.
FirstKey(which, f) == SubSeq(Keys(which, f), 1, 2)

SecondKey(which, f) ==
    IF which = "video" THEN KeyInt(f.height) ELSE KeyNum(f.audio_rate)

\* The lexicographic comparison of two tuples of numbers of equal length.
LexCmp(x, y) ==
    IF x = y THEN "Equal"
    ELSE LET d == CHOOSE i \in 1..Len(x) :
                     x[i] # y[i] /\ \A j \in 1..(i - 1) : x[j] = y[j]
         IN  IF x[d] < y[d] THEN "Less" ELSE "Greater"

\* C6: best_* returns a passing format that no passing format compares
\* strictly greater than, worst_* one that no passing format compares
\* strictly less than; a higher quality beats a lower one whatever the
\* resolutions, and among equal qualities the higher second key wins.
C6_BestIsMaximalWorstIsMinimal ==
    call.op \in Selectors =>
        LET which == WhichOf(call.op)
            pass == Passing(which)
        IN  pass # {} =>
              /\ call.ret # None
              /\ call.ret[1] \in pass
              /\ LET r == formats[call.ret[1]]
                 IN  \A j \in pass :
                        LET q == LexCmp(FirstKey(which, formats[j]), FirstKey(which, r))
                            k == LexCmp(SecondKey(which, formats[j]), SecondKey(which, r))
                        IN  IF IsBest(call.op)
                            THEN /\ Compare(which, formats[j], r) # "Greater"
                                 /\ q # "Greater"
                                 /\ q = "Equal" => k # "Greater"
                            ELSE /\ Compare(which, formats[j], r) # "Less"
                                 /\ q # "Less"
                                 /\ q = "Equal" => k # "Less"

\* Qualities 1.0, 1.0, 2.0 with heights 1080, 480, 480: the best video
\* format is the third.
C6_Witness ==
    /\ call.op = "best_video_format"
    /\ Len(formats) = 3
    /\ \A i \in 1..3 : is_video(formats[i])
    /\ formats[1].quality = Some(F(1)) /\ formats[1].height = Some(1080)
    /\ formats[2].quality = Some(F(1)) /\ formats[2].height = Some(480)
    /\ formats[3].quality = Some(F(2)) /\ formats[3].height = Some(480)
    /\ call.ret = Some(3)

\* C8: when no format passes the predicate the four selectors return None;
\* when exactly one passes, best and worst both return that one.
C8_EmptyAndSingleton ==
    call.op \in Selectors =>
        LET pass == Passing(WhichOf(call.op))
        IN  /\ pass = {} => call.ret = None
            /\ \A i \in pass : pass = {i} => call.ret = Some(i)

\* The single video format of a longer list was returned as the worst.
C8_Witness ==
    /\ call.op = "worst_video_format"
    /\ Len(formats) > 1
    /\ Cardinality(Passing("video")) = 1
    /\ call.ret # None
    /\ call.ret[1] \in Passing("video")

\* The passing positions whose format compares Equal with that of position r.
TiedWith(which, r) ==
    {j \in Passing(which) : Compare(which, formats[j], formats[r]) = "Equal"}

\* Every two passing formats compare Equal.
AllTied(which) ==
    \A i, j \in Passing(which) : Compare(which, formats[i], formats[j]) = "Equal"

\* C28: ties are broken by list position.  Of several passing formats that
\* compare Equal and are maximal, best_* returns the one that appears last;
\* of several that compare Equal and are minimal, worst_* returns the one
\* that appears first; on two or more passing formats that all compare Equal
\* best_* returns the last and worst_* the first, which differ.
C28_TieBreakByPosition ==
    (call.op \in Selectors /\ call.ret # None) =>
        LET which == WhichOf(call.op)
            r == call.ret[1]
        IN  /\ \A j \in TiedWith(which, r) :
                   IF IsBest(call.op) THEN j <= r ELSE j >= r
            /\ (AllTied(which) /\ Cardinality(Passing(which)) >= 2) =>
                   /\ best_video_format(formats) # worst_video_format(formats)
                        \/ which # "video"
                   /\ best_audio_format(formats) # worst_audio_format(formats)
                        \/ which # "audio"

\* Of three video formats that all compare Equal the last one was returned
\* as the best.
C28_Witness ==
    /\ call.op = "best_video_format"
    /\ Len(formats) = 3
    /\ Passing("video") = {1, 2, 3}
    /\ AllTied("video")
    /\ call.ret = Some(3)
    /\ worst_video_format(formats) = Some(1)

-----------------------------------------------------------------------------
(* Claims about the comparators                                            *)

Comparators == {"compare_video_formats", "compare_audio_formats"}

ComparatorKind(op) == IF op = "compare_video_formats" THEN "video" ELSE "audio"

Reverse(o) == IF o = "Less" THEN "Greater" ELSE IF o = "Greater" THEN "Less" ELSE o

\* C7: compare_video_formats is the lexicographic comparison of (quality,
\* height, fps, video bitrate) and compare_audio_formats that of (quality,
\* audio bitrate, sample rate, channels), a missing value counting as 0.
C7_Lexicographic ==
    call.op \in Comparators =>
        \A i, j \in 1..Len(formats) :
            call.ret[i][j] = LexCmp(Keys(ComparatorKind(call.op), formats[i]),
                                    Keys(ComparatorKind(call.op), formats[j]))

\* Equal quality and height, so the frame rate decided, against the bitrate.
C7_Witness ==
    /\ call.op = "compare_video_formats"
    /\ Len(formats) = 2
    /\ formats[1].quality = formats[2].quality
    /\ formats[1].height = formats[2].height
    /\ formats[1].fps = None /\ formats[2].fps = Some(F(1))
    /\ formats[1].video_rate = Some(F(1)) /\ formats[2].video_rate = None
    /\ call.ret[1][2] = "Less"

\* C9 as stated: compare(a, b) is the reverse of compare(b, a), it is Equal
\* only for the same element, and it is transitive.
C9_EqualOnlyForSame ==
    call.op \in Comparators =>
        \A i, j, k \in 1..Len(formats) :
            /\ call.ret[i][j] = Reverse(call.ret[j][i])
            /\ call.ret[i][j] = "Equal" => formats[i] = formats[j]
            /\ call.ret[i][j] = "Less" /\ call.ret[j][k] = "Less"
                 => call.ret[i][k] = "Less"

\* C9, amended: each comparator is a consistent total preorder, NaN and
\* missing keys included: compare(a, b) is the reverse of compare(b, a),
\* it is Equal exactly when the key tuples of a and b (missing values as 0)
\* are equal, which distinct formats can be, and it is transitive; best_*
\* returns the last maximal and worst_* the first minimal passing format of
\* the list, so repeated calls return the same element, also under ties.
C9_TotalPreorder ==
    /\ call.op \in Comparators =>
         \A i, j, k \in 1..Len(formats) :
            /\ call.ret[i][j] \in {"Less", "Equal", "Greater"}
            /\ call.ret[i][j] = Reverse(call.ret[j][i])
            /\ call.ret[i][j] = "Equal"
                 <=> Keys(ComparatorKind(call.op), formats[i])
                       = Keys(ComparatorKind(call.op), formats[j])
            /\ call.ret[i][j] # "Greater" /\ call.ret[j][k] # "Greater"
                 => call.ret[i][k] # "Greater"
            /\ call.ret[i][j] = "Less" /\ call.ret[j][k] # "Greater"
                 => call.ret[i][k] = "Less"
    /\ call.op \in Selectors =>
         LET which == WhichOf(call.op)
             pass == Passing(which)
             Top_(i) == \A j \in pass : Compare(which, formats[j], formats[i]) # "Greater"
             Bottom_(i) == \A j \in pass : Compare(which, formats[j], formats[i]) # "Less"
         IN  pass # {} =>
               call.ret = IF IsBest(call.op)
                          THEN Some(CHOOSE i \in pass :
                                      Top_(i) /\ \A j \in pass : Top_(j) => j <= i)
                          ELSE Some(CHOOSE i \in pass :
                                      Bottom_(i) /\ \A j \in pass : Bottom_(j) => i <= j)

\* Two formats that differ (a missing height, a height of 0) compared Equal,
\* and so did two NaN qualities.
C9_Witness ==
    /\ call.op = "compare_video_formats"
    /\ Len(formats) = 3
    /\ formats[1] # formats[2]
    /\ call.ret[1][2] = "Equal"
    /\ formats[3].quality = Some(NaN)
    /\ call.ret[3][3] = "Equal"
    /\ call.ret[1][3] = "Less"

-----------------------------------------------------------------------------
(* fetcher::platform and the static ffmpeg build table                     *)

MaxCalls == 2

\* Platform and Architecture: a variant, and the raw string of Unknown.
Variant(tag) == [tag |-> tag, raw |-> ""]

UnknownVariant(raw) == [tag |-> "Unknown", raw |-> raw]

\* Platform::detect on the value of std::env::consts::OS
Platform_detect(os) ==
    CASE os = "windows" -> Variant("Windows")
      [] os = "linux" -> Variant("Linux")
      [] os = "macos" -> Variant("Mac")
      [] OTHER -> UnknownVariant(os)

\* Architecture::detect on the value of std::env::consts::ARCH
Architecture_detect(arch) ==
    CASE arch = "x86_64" -> Variant("X64")
      [] arch = "x86" -> Variant("X86")
      [] arch = "armv7l" -> Variant("Armv7l")
      [] arch = "aarch64" -> Variant("Aarch64")
      [] OTHER -> UnknownVariant(arch)

OsNames == {"windows", "linux", "macos", "freebsd", "android"}

ArchNames == {"x86_64", "x86", "armv7l", "aarch64", "arm", "riscv64"}

\* A string is a sequence of tokens; "/" is a token of its own.
GyanEssentials ==
    <<"https:", "/", "/", "www.gyan.dev", "/", "ffmpeg", "/", "builds", "/",
      "ffmpeg-release-essentials.zip">>

OsxExperts(file) == <<"https:", "/", "/", "www.osxexperts.net", "/", file>>

JohnVanSickle(file) ==
    <<"https:", "/", "/", "johnvansickle.com", "/", "ffmpeg", "/", "releases", "/", file>>

\* str::split('/'): the pieces between the separators, at least one.
RECURSIVE SplitFrom(_, _, _)
SplitFrom(str, piece, i) ==
    IF i > Len(str) THEN <<piece>>
    ELSE IF str[i] = "/" THEN <<piece>> \o SplitFrom(str, <<>>, i + 1)
    ELSE SplitFrom(str, Append(piece, str[i]), i + 1)

split_slash(str) == SplitFrom(str, <<>>, 1)

\* Iterator::last
last(items) == IF items = <<>> THEN None ELSE Some(items[Len(items)])

\* The match of select_asset: the URL of the pair, if the table has one.
StaticBuildUrl(p, a) ==
    CASE p.tag = "Windows" -> Some(GyanEssentials)
      [] p.tag = "Mac" /\ a.tag = "X64" -> Some(OsxExperts("ffmpeg71intel.zip"))
      [] p.tag = "Mac" /\ a.tag = "Aarch64" -> Some(OsxExperts("ffmpeg71arm.zip"))
      [] p.tag = "Linux" /\ a.tag = "X64"
           -> Some(JohnVanSickle("ffmpeg-release-amd64-static.tar.xz"))
      [] p.tag = "Linux" /\ a.tag = "X86"
           -> Some(JohnVanSickle("ffmpeg-release-i686-static.tar.xz"))
      [] p.tag = "Linux" /\ a.tag = "Armv7l"
           -> Some(JohnVanSickle("ffmpeg-release-armhf-static.tar.xz"))
      [] p.tag = "Linux" /\ a.tag = "Aarch64"
           -> Some(JohnVanSickle("ffmpeg-release-arm64-static.tar.xz"))
      [] OTHER -> None

\* let name = url.split('/').last()?; Some(Asset { name, download_url: url })
AssetOf(url) ==
    IF url = None THEN None
    ELSE LET name == last(split_slash(url[1]))
         IN  IF name = None THEN None
             ELSE Some([name |-> name[1], download_url |-> url[1]])

\* The table with the entry of 32-bit ARM Linux left out.
BuildFetcher_select_asset_without_armv7l(p, a) ==
    IF p.tag = "Linux" /\ a.tag = "Armv7l" THEN None
    ELSE AssetOf(StaticBuildUrl(p, a))

\* fetcher::deps::ffmpeg::BuildFetcher::select_asset
BuildFetcher_select_asset(p, a) == AssetOf(StaticBuildUrl(p, a))

\* fetcher::FFmpeg::select_asset: the same table, written out a second time.
FFmpeg_select_asset(p, a) == AssetOf(StaticBuildUrl(p, a))

AssetInit ==
    /\ platform \in {Platform_detect(os) : os \in OsNames}
    /\ architecture \in {Architecture_detect(arch) : arch \in ArchNames}
    /\ resolved = <<>>
    /\ ExecIdle
    /\ FormatIdle
    /\ RestIdle

CallBuildFetcherSelectAsset ==
    /\ Len(resolved) < MaxCalls
    /\ resolved' = Append(resolved,
                     [by |-> "BuildFetcher",
                      ret |-> BuildFetcher_select_asset(platform, architecture)])
    /\ UNCHANGED <<platform, architecture, execVars, fmtVars, restVars>>

CallFFmpegSelectAsset ==
    /\ Len(resolved) < MaxCalls
    /\ resolved' = Append(resolved,
                     [by |-> "FFmpeg",
                      ret |-> FFmpeg_select_asset(platform, architecture)])
    /\ UNCHANGED <<platform, architecture, execVars, fmtVars, restVars>>

AssetNext ==
    \/ CallBuildFetcherSelectAsset
    \/ CallFFmpegSelectAsset

AssetSpec == AssetInit /\ [][AssetNext]_vars

-----------------------------------------------------------------------------
(* Claims about the static build table                                     *)

\* The pairs the table of C10 lists.
InStaticTable(p, a) ==
    \/ p.tag = "Windows"
    \/ p.tag = "Mac" /\ a.tag \in {"X64", "Aarch64"}
    \/ p.tag = "Linux" /\ a.tag \in {"X64", "X86", "Armv7l", "Aarch64"}

\* `name` is what follows the last "/" of `url`.
IsFinalSegment(name, url) ==
    /\ name # <<>>
    /\ \A i \in 1..Len(name) : name[i] # "/"
    /\ Len(url) > Len(name)
    /\ SubSeq(url, Len(url) - Len(name) + 1, Len(url)) = name
    /\ url[Len(url) - Len(name)] = "/"

\* C10: select_asset (of BuildFetcher and of FFmpeg) returns an asset for
\* exactly the pairs of the table and None for every other pair, every
\* Unknown platform included; the name of a returned asset is non-empty and
\* is the final path segment of its URL; the same pair always yields the
\* same asset.
C10_StaticTable ==
    \A n \in 1..Len(resolved) :
        LET ret == resolved[n].ret
        IN  /\ ret # None <=> InStaticTable(platform, architecture)
            /\ ret # None => IsFinalSegment(ret[1].name, ret[1].download_url)
            /\ \A m \in 1..Len(resolved) : resolved[m].ret = ret

\* Both resolvers were asked for Linux on ARMv7 and gave the armhf archive.
C10_Witness ==
    /\ platform.tag = "Linux"
    /\ architecture.tag = "Armv7l"
    /\ Len(resolved) = 2
    /\ resolved[1].by # resolved[2].by
    /\ resolved[1].ret # None
    /\ resolved[1].ret[1].name = <<"ffmpeg-release-armhf-static.tar.xz">>

-----------------------------------------------------------------------------
(* fetcher::deps::youtube::GitHubFetcher::select_asset                      *)
(* (fetcher::GitHubFetcher::select_asset is the same code)                  *)

MaxAssets == 3

\* str::contains: `pat` occurs in `str` as a contiguous run.
contains(str, pat) ==
    \E k \in 0..(Len(str) - Len(pat)) : SubSeq(str, k + 1, k + Len(pat)) = pat

BASE_NAME == <<"yt-dlp">>

\* The names of the assets a release of yt-dlp can carry.
ReleaseNames ==
    { BASE_NAME,
      BASE_NAME \o <<".exe">>,
      BASE_NAME \o <<"_x86", ".exe">>,
      BASE_NAME \o <<"_linux">>,
      BASE_NAME \o <<"_linux", "_armv7l">>,
      BASE_NAME \o <<"_linux", "_aarch64">>,
      BASE_NAME \o <<"_macos">>,
      BASE_NAME \o <<"_macos", "_legacy">> }

ReleaseAsset(name) ==
    [name |-> name,
     download_url |-> <<"https:", "/", "/", "github.com", "/", "download", "/">> \o name]

\* The closure handed to find: does `name` suit the pair?
AssetSuits(p, a, name) ==
    CASE p.tag = "Windows" /\ a.tag = "X64" -> contains(name, BASE_NAME \o <<".exe">>)
      [] p.tag = "Windows" /\ a.tag = "X86" -> contains(name, BASE_NAME \o <<"_x86", ".exe">>)
      [] p.tag = "Linux" /\ a.tag = "X64" -> contains(name, BASE_NAME \o <<"_linux">>)
      [] p.tag = "Linux" /\ a.tag = "Armv7l"
           -> contains(name, BASE_NAME \o <<"_linux", "_armv7l">>)
      [] p.tag = "Linux" /\ a.tag = "Aarch64"
           -> contains(name, BASE_NAME \o <<"_linux", "_aarch64">>)
      [] p.tag = "Mac" -> contains(name, BASE_NAME \o <<"_macos">>)
      [] OTHER -> FALSE

\* Iterator::find, as the position of the element it refers to.
RECURSIVE FindFrom(_, _, _, _)
FindFrom(p, a, assets, i) ==
    IF i > Len(assets) THEN None
    ELSE IF AssetSuits(p, a, assets[i].name) THEN Some(i)
    ELSE FindFrom(p, a, assets, i + 1)

\* The last asset that suits, instead of the first.
RECURSIVE FindBackFrom(_, _, _, _)
FindBackFrom(p, a, assets, i) ==
    IF i < 1 THEN None
    ELSE IF AssetSuits(p, a, assets[i].name) THEN Some(i)
    ELSE FindBackFrom(p, a, assets, i - 1)

GitHubFetcher_select_asset_last(p, a, assets) == FindBackFrom(p, a, assets, Len(assets))

GitHubFetcher_select_asset(p, a, assets) == FindFrom(p, a, assets, 1)

ReleaseInit ==
    /\ platform \in {Platform_detect(os) : os \in OsNames}
    /\ architecture \in {Architecture_detect(arch) : arch \in ArchNames}
    /\ release \in ListsUpTo({ReleaseAsset(n) : n \in ReleaseNames}, MaxAssets)
    /\ picked = NoPick
    /\ resolved = <<>>
    /\ ExecIdle
    /\ FormatIdle
    /\ InstallIdle
    /\ LaterIdle

CallGitHubSelectAsset ==
    /\ picked = NoPick
    /\ picked' = [ret |-> GitHubFetcher_select_asset(platform, architecture, release)]
    /\ UNCHANGED <<release, execVars, fmtVars, assetVars, installVars, laterVars>>

ReleaseNext == CallGitHubSelectAsset

ReleaseSpec == ReleaseInit /\ [][ReleaseNext]_vars

-----------------------------------------------------------------------------
(* Claims about the asset of a release                                     *)

\* The pattern of a pair, if it has one.
PatternOf(p, a) ==
    CASE p.tag = "Windows" /\ a.tag = "X64" -> Some(<<"yt-dlp", ".exe">>)
      [] p.tag = "Windows" /\ a.tag = "X86" -> Some(<<"yt-dlp", "_x86", ".exe">>)
      [] p.tag = "Linux" /\ a.tag = "X64" -> Some(<<"yt-dlp", "_linux">>)
      [] p.tag = "Linux" /\ a.tag = "Armv7l" -> Some(<<"yt-dlp", "_linux", "_armv7l">>)
      [] p.tag = "Linux" /\ a.tag = "Aarch64" -> Some(<<"yt-dlp", "_linux", "_aarch64">>)
      [] p.tag = "Mac" -> Some(<<"yt-dlp", "_macos">>)
      [] OTHER -> None

\* The positions of `release` whose name contains the pattern of the pair.
Matching ==
    IF PatternOf(platform, architecture) = None THEN {}
    ELSE {i \in 1..Len(release) :
            contains(release[i].name, PatternOf(platform, architecture)[1])}

\* C11: GitHubFetcher::select_asset returns the first asset, in list order,
\* whose name contains the pattern of the requested pair, and None when no
\* name matches or the pair has no pattern; what it returns is an element of
\* the release's asset list.
C11_FirstMatchInListOrder ==
    picked # NoPick =>
        /\ picked.ret = None <=> Matching = {}
        /\ picked.ret # None =>
              /\ picked.ret[1] \in 1..Len(release)
              /\ picked.ret[1] \in Matching
              /\ \A j \in Matching : picked.ret[1] <= j

\* Two assets match a Linux request and the first of them, not the last one,
\* was returned.
C11_Witness ==
    /\ picked # NoPick
    /\ picked.ret # None
    /\ Cardinality(Matching) = 2
    /\ \E j \in Matching : picked.ret[1] < j
    /\ platform.tag = "Linux"

\* The asset built for a Linux architecture.
LinuxBuild(a) ==
    CASE a.tag = "X64" -> <<"yt-dlp", "_linux">>
      [] a.tag = "Armv7l" -> <<"yt-dlp", "_linux", "_armv7l">>
      [] a.tag = "Aarch64" -> <<"yt-dlp", "_linux", "_aarch64">>

\* C18: for a release that holds exactly one asset per Linux architecture,
\* in any order, the request for (Linux, A) returns the asset built for A.
C18_LinuxBuildOfArchitecture ==
    ( /\ picked # NoPick
      /\ platform.tag = "Linux"
      /\ architecture.tag \in {"X64", "Armv7l", "Aarch64"}
      /\ Len(release) = 3
      /\ {release[i].name : i \in 1..3} =
            {LinuxBuild(Variant(t)) : t \in {"X64", "Armv7l", "Aarch64"}} )
    => /\ picked.ret # None
       /\ release[picked.ret[1]].name = LinuxBuild(architecture)

-----------------------------------------------------------------------------
(* Paths and the file system (std::path, std::fs, utils::file_system)       *)
(* A path is a sequence of components, a component a sequence of tokens.    *)

\* Path::join with a relative component
join(path, name) == Append(path, name)

\* Path::parent
parent(path) == IF path = <<>> THEN None ELSE Some(SubSeq(path, 1, Len(path) - 1))

Extensions == {".zip", ".exe", ".xz"}

\* Path::with_extension(""): the last component loses its extension.
with_extension_empty(path) ==
    LET name == path[Len(path)]
    IN  IF Len(name) > 1 /\ name[Len(name)] \in Extensions
        THEN [path EXCEPT ![Len(path)] = SubSeq(name, 1, Len(name) - 1)]
        ELSE path

\* utils::find_executable, on the platform the crate runs on
find_executable(host, name) ==
    IF host.tag = "Windows" THEN name \o <<".exe">> ELSE name

\* The path a sequence of components leads to: ".." steps back, the root
\* component starts over at the root.
RECURSIVE ResolveFrom(_, _, _)
ResolveFrom(path, i, acc) ==
    IF i > Len(path) THEN acc
    ELSE IF path[i] = <<"..">>
         THEN ResolveFrom(path, i + 1,
                          IF acc = <<>> \/ acc = << <<"/">> >> THEN acc
                          ELSE SubSeq(acc, 1, Len(acc) - 1))
    ELSE IF path[i] = <<"/">> THEN ResolveFrom(path, i + 1, << <<"/">> >>)
    ELSE ResolveFrom(path, i + 1, Append(acc, path[i]))

Resolve(path) == ResolveFrom(path, 1, <<>>)

Prefixes(path) == {SubSeq(path, 1, k) : k \in 1..Len(path)}

IsUnder(path, dir) == Len(path) >= Len(dir) /\ SubSeq(path, 1, Len(dir)) = dir

Directory == [kind |-> "dir", exec |-> FALSE, data |-> <<>>]

RegularFile(exec, data) == [kind |-> "file", exec |-> exec, data |-> data]

\* std::fs::create_dir_all: fails when a file is in the way.
can_create_dir_all(d, path) ==
    \A q \in Prefixes(Resolve(path)) \cap DOMAIN d : d[q].kind = "dir"

create_dir_all(d, path) ==
    [q \in DOMAIN d \cup Prefixes(Resolve(path)) |->
        IF q \in DOMAIN d THEN d[q] ELSE Directory]

\* Writing `body` from offset 0 into a file that held `old`.
write_from_start(old, body) == body \o SubSeq(old, Len(body) + 1, Len(old))

\* file_system::create_file opens with read, write and create (mode 0o755
\* for a new file where there are modes); it fails on a directory or
\* without the parent directory.
can_create_file(d, path) ==
    LET q == Resolve(path)
    IN  /\ q # <<>>
        /\ q \in DOMAIN d => d[q].kind = "file"
        /\ Len(q) > 1 => /\ SubSeq(q, 1, Len(q) - 1) \in DOMAIN d
                         /\ d[SubSeq(q, 1, Len(q) - 1)].kind = "dir"

\* create_file followed by writing all of `body`
written(d, path, body, modes) ==
    LET q == Resolve(path)
    IN  IF q \in DOMAIN d
        THEN [d EXCEPT ![q].data = write_from_start(@, body)]
        ELSE [r \in DOMAIN d \cup {q} |->
                IF r = q THEN RegularFile(modes, body) ELSE d[r]]

\* std::fs::copy: contents and permission bits of `from`
copy(d, from, to) ==
    [r \in DOMAIN d \cup {to} |-> IF r = to THEN d[from] ELSE d[r]]

remove_dir_all(d, dir) == [r \in {q \in DOMAIN d : ~IsUnder(q, dir)} |-> d[r]]

remove_file(d, path) == [r \in DOMAIN d \ {path} |-> d[r]]

\* file_system::set_executable
set_executable(d, path) == [d EXCEPT ![path].exec = TRUE]

\* std::fs::rename
rename(d, from, to) ==
    [r \in (DOMAIN d \ {from}) \cup {to} |-> IF r = to THEN d[from] ELSE d[r]]

-----------------------------------------------------------------------------
(* utils::file_system::extract_zip                                          *)

MaxEntries == 3

IOFailure(what) == [kind |-> "IO", what |-> what]

UnknownFailure(msg) == [kind |-> "Unknown", what |-> msg]

\* Path::join with a relative or an absolute path
join_path(path, rel) ==
    IF rel # <<>> /\ rel[1] = <<"/">> THEN rel ELSE path \o rel

\* ZipFile::enclosed_name: None for a name that is absolute or that steps
\* above its starting directory.
RECURSIVE EnclosedFrom(_, _, _)
EnclosedFrom(name, i, depth) ==
    IF i > Len(name) THEN TRUE
    ELSE IF name[i] = <<"/">> THEN FALSE
    ELSE IF name[i] = <<"..">>
         THEN depth > 0 /\ EnclosedFrom(name, i + 1, depth - 1)
    ELSE EnclosedFrom(name, i + 1, depth + 1)

\* enclosed_name that lets every name through.
enclosed_name_unchecked(name) == Some(name)

enclosed_name(name) == IF EnclosedFrom(name, 1, 0) THEN Some(name) ELSE None

\* The loop of extract_zip from entry i on: the file system it leaves and
\* the error it ended with, if any.
RECURSIVE ExtractZipFrom(_, _, _, _)
ExtractZipFrom(d, entries, destination, i) ==
    IF i > Len(entries) THEN [disk |-> d, err |-> None]
    ELSE
      LET file == entries[i]
          name == enclosed_name(file.name)
      IN  IF name = None
          THEN [disk |-> d, err |-> Some(UnknownFailure("Failed to get file name"))]
          ELSE
            LET path == join_path(destination, name[1])
            IN  IF file.is_file
                THEN LET up == parent(Resolve(path))
                     IN  IF up # None /\ ~can_create_dir_all(d, up[1])
                         THEN [disk |-> d, err |-> Some(IOFailure("create_dir_all"))]
                         ELSE
                           LET d1 == IF up = None THEN d ELSE create_dir_all(d, up[1])
                           IN  IF ~can_create_file(d1, path)
                               THEN [disk |-> d1, err |-> Some(IOFailure("create_file"))]
                               ELSE ExtractZipFrom(
                                        written(d1, path, file.data,
                                                platform.tag # "Windows"),
                                        entries, destination, i + 1)
                ELSE IF ~can_create_dir_all(d, path)
                     THEN [disk |-> d, err |-> Some(IOFailure("create_dir_all"))]
                     ELSE ExtractZipFrom(create_dir_all(d, path), entries,
                                         destination, i + 1)

extract_zip(d, entries, destination) == ExtractZipFrom(d, entries, destination, 1)

Body == <<1, 2>>

ZipEntry(name, is_file) ==
    [name |-> name, is_file |-> is_file, exec |-> FALSE,
     data |-> IF is_file THEN Body ELSE <<>>]

\* Entry names: plain, nested, stepping back inside, stepping out, absolute.
ZipNames ==
    { << <<"a">> >>,
      << <<"d">>, <<"f">> >>,
      << <<"d">>, <<"..">>, <<"g">> >>,
      << <<"..">>, <<"evil">> >>,
      << <<"d">>, <<"..">>, <<"..">>, <<"evil">> >>,
      << <<"/">>, <<"evil">> >> }

ZipEntries == {ZipEntry(n, TRUE) : n \in ZipNames} \cup {ZipEntry(<< <<"d">> >>, FALSE)}

Libs == << <<"libs">> >>

\* The directory the archive is unpacked into.
Unpacked == join(Libs, <<"ffmpeg-release">>)

\* What is on the disk before: a file beside the destination directory and
\* one at the root.
DiskBefore ==
    [q \in { << <<"evil">> >>, << <<"/">>, <<"evil">> >>, Libs, join(Libs, <<"evil">>) } |->
        IF q = Libs THEN Directory ELSE RegularFile(FALSE, <<9, 9, 9>>)]

ZipInit ==
    /\ bundle \in ListsUpTo(ZipEntries, MaxEntries)
    /\ disk \in {DiskBefore, create_dir_all(DiskBefore, Unpacked)}
    /\ platform \in {Variant("Windows"), Variant("Mac")}
    /\ extracted = NoInstall
    /\ architecture = Variant("X64")
    /\ resolved = <<>>
    /\ tool = "none"
    /\ custom_name = <<>>
    /\ ipc = "idle"
    /\ wanted = <<>>
    /\ steps = <<>>
    /\ installed = NoInstall
    /\ ExecIdle
    /\ FormatIdle
    /\ ReleaseIdle
    /\ LaterIdle

CallExtractZip ==
    /\ extracted = NoInstall
    /\ LET r == extract_zip(disk, bundle, Unpacked)
       IN  /\ disk' = r.disk
           /\ extracted' = IF r.err = None THEN [kind |-> "Ok"] ELSE r.err[1]
    /\ UNCHANGED <<tool, custom_name, bundle, ipc, wanted, steps, installed,
                   execVars, fmtVars, assetVars, releaseVars, laterVars>>

ZipNext == CallExtractZip

ZipSpec == ZipInit /\ [][ZipNext]_vars

-----------------------------------------------------------------------------
(* Claims about extract_zip                                                *)

\* The name leads out of the directory it is joined to.
LeadsOut(name) ==
    \/ \E i \in 1..Len(name) : name[i] = <<"/">>
    \/ ~IsUnder(Resolve(Unpacked \o name), Unpacked)

-----------------------------------------------------------------------------
(* fetcher::deps::LibraryInstaller: install_youtube and install_ffmpeg      *)
(* `platform` and `architecture` are what Platform::detect() and            *)
(* Architecture::detect() give on the machine the crate runs on.            *)

GithubFailure(p, a) == [kind |-> "Github", platform |-> p, architecture |-> a]

BinaryFailure(p, a) == [kind |-> "Binary", platform |-> p, architecture |-> a]

ReqwestFailure == [kind |-> "Reqwest"]

Installed(path) == [kind |-> "Ok", path |-> path]

WantedRelease(asset) == [asset_name |-> asset.name, asset_url |-> asset.download_url]

\* GitHubFetcher::fetch_release_for_platform with the Github error replaced
\* by the Binary one.
fetch_release_for_platform_as_binary(p, a, assets) ==
    LET found == GitHubFetcher_select_asset(p, a, assets)
    IN  IF found = None THEN [err |-> Some(BinaryFailure(p, a)), ok |-> None]
        ELSE [err |-> None, ok |-> Some(WantedRelease(assets[found[1]]))]

\* GitHubFetcher::fetch_release_for_platform, once the release is fetched
fetch_release_for_platform(p, a, assets) ==
    LET found == GitHubFetcher_select_asset(p, a, assets)
    IN  IF found = None THEN [err |-> Some(GithubFailure(p, a)), ok |-> None]
        ELSE [err |-> None, ok |-> Some(WantedRelease(assets[found[1]]))]

\* BuildFetcher::fetch_binary_for_platform
fetch_binary_for_platform(p, a) ==
    LET found == BuildFetcher_select_asset(p, a)
    IN  IF found = None THEN [err |-> Some(BinaryFailure(p, a)), ok |-> None]
        ELSE [err |-> None, ok |-> Some(WantedRelease(found[1]))]

\* let name = custom_name.unwrap_or(String::from("yt-dlp"))
YoutubePath == join(Libs, find_executable(platform, unwrap_or(custom_name, <<"yt-dlp">>)))

\* let archive = self.destination.join("ffmpeg-release.zip")
Archive == join(Libs, <<"ffmpeg-release", ".zip">>)

\* let destination = archive.as_ref().with_extension("")
Extraction == with_extension_empty(Archive)

\* The directory the static build of an architecture unpacks to.
StaticFolder(a) ==
    CASE a.tag = "X64" -> Some(<<"ffmpeg-7.0.2-amd64-static">>)
      [] a.tag = "X86" -> Some(<<"ffmpeg-7.0.2-i686-static">>)
      [] a.tag = "Armv7l" -> Some(<<"ffmpeg-7.0.2-armhf-static">>)
      [] a.tag = "Aarch64" -> Some(<<"ffmpeg-7.0.2-arm64-static">>)
      [] OTHER -> None

\* Where extract_archive expects the binary, below the extraction directory.
ExecutableIn(p, a) ==
    CASE p.tag = "Windows" -> << <<"ffmpeg-7.1-essentials_build">>, <<"bin">>, <<"ffmpeg", ".exe">> >>
      [] p.tag = "Mac" -> << <<"ffmpeg">> >>
      [] p.tag = "Linux" -> << unwrap_or(StaticFolder(a), <<"?">>), <<"ffmpeg">> >>
      [] OTHER -> << <<"?">> >>

\* let binary = parent.join("ffmpeg") or parent.join("ffmpeg.exe")
Binary ==
    join(unwrap_or(parent(Extraction), <<>>),
         IF platform.tag = "Windows" THEN <<"ffmpeg", ".exe">> ELSE <<"ffmpeg">>)

\* let new_path = self.destination.join(utils::find_executable(&name))
NewPath == join(Libs, find_executable(platform, unwrap_or(custom_name, <<"ffmpeg">>)))

\* tar::Archive::unpack: the tree of the archive, with its permission bits.
RECURSIVE UnpackFrom(_, _, _, _)
UnpackFrom(d, entries, destination, i) ==
    IF i > Len(entries) THEN d
    ELSE LET path == Resolve(destination \o entries[i].name)
             d1 == create_dir_all(d, SubSeq(path, 1, Len(path) - 1))
         IN  UnpackFrom([r \in DOMAIN d1 \cup {path} |->
                            IF r = path
                            THEN RegularFile(entries[i].exec, entries[i].data)
                            ELSE d1[r]],
                        entries, destination, i + 1)

extract_tar_xz(d, entries, destination) ==
    UnpackFrom(create_dir_all(d, destination), entries, destination, 1)

\* Fetcher::fetch_asset once the response has arrived: the parent directory,
\* the file, and all of the body written to it.
fetch_asset(d, destination, body, modes) ==
    LET up == parent(destination)
    IN  IF up # None /\ ~can_create_dir_all(d, up[1])
        THEN [disk |-> d, err |-> Some(IOFailure("create_dir_all"))]
        ELSE LET d1 == IF up = None THEN d ELSE create_dir_all(d, up[1])
             IN  IF ~can_create_file(d1, destination)
                 THEN [disk |-> d1, err |-> Some(IOFailure("create_file"))]
                 ELSE [disk |-> written(d1, destination, body, modes), err |-> None]

\* The step went through: on to `next`.
Proceed(step, next) ==
    /\ steps' = Append(steps, [step |-> step, ok |-> TRUE])
    /\ ipc' = next
    /\ installed' = installed

\* The `?` of a step that failed: the run ends with the error.
GiveUp(step, err) ==
    /\ steps' = Append(steps, [step |-> step, ok |-> FALSE])
    /\ ipc' = "done"
    /\ installed' = err

\* The step went through and the run returns Ok(path).
Return(step, path) ==
    /\ steps' = Append(steps, [step |-> step, ok |-> TRUE])
    /\ ipc' = "done"
    /\ installed' = Installed(path)

installInputs == <<tool, custom_name, bundle, extracted, platform, architecture,
                   resolved, release, picked, execVars, fmtVars, laterVars>>

\* file_system::create_dir(self.destination.clone())?
CreateDestination ==
    /\ ipc = "create_dir"
    /\ IF can_create_dir_all(disk, Libs)
       THEN disk' = create_dir_all(disk, Libs) /\ Proceed("create_dir", "resolve")
       ELSE disk' = disk /\ GiveUp("create_dir", IOFailure("create_dir"))
    /\ UNCHANGED <<wanted, installInputs>>

\* fetcher.fetch_release(auth_token).await? / fetcher.fetch_binary().await?
ResolveAsset ==
    /\ ipc = "resolve"
    /\ LET r == IF tool = "youtube"
                THEN fetch_release_for_platform(platform, architecture, release)
                ELSE fetch_binary_for_platform(platform, architecture)
       IN  IF r.err # None
           THEN wanted' = wanted /\ GiveUp("resolve", r.err[1])
           ELSE wanted' = r.ok /\ Proceed("resolve", "download")
    /\ UNCHANGED <<disk, installInputs>>

\* release.download(path.clone()).await? and, for yt-dlp, Ok(path)
DownloadAsset ==
    /\ ipc = "download"
    /\ LET target == IF tool = "youtube" THEN YoutubePath ELSE Archive
           r == fetch_asset(disk, target, Body, platform.tag # "Windows")
       IN  /\ disk' = r.disk
           /\ IF r.err # None THEN GiveUp("download", r.err[1])
              ELSE IF tool = "youtube" THEN Return("download", YoutubePath)
              ELSE Proceed("download", "extract")
    /\ UNCHANGED <<wanted, installInputs>>

\* extract_binary_for_platform up to the end of the extraction
ExtractArchive ==
    /\ ipc = "extract"
    /\ IF platform.tag = "Linux"
       THEN IF StaticFolder(architecture) = None
            THEN disk' = disk
                 /\ GiveUp("extract", BinaryFailure(platform, architecture))
            ELSE disk' = extract_tar_xz(disk, bundle, Extraction)
                 /\ Proceed("extract", "copy")
       ELSE LET r == extract_zip(disk, bundle, Extraction)
            IN  /\ disk' = r.disk
                /\ IF r.err # None THEN GiveUp("extract", r.err[1])
                   ELSE Proceed("extract", "copy")
    /\ UNCHANGED <<wanted, installInputs>>

\* The copy, with the cleanup left out of the run.
CopyBinarySkippingCleanup ==
    /\ ipc = "copy"
    /\ LET executable == Extraction \o ExecutableIn(platform, architecture)
       IN  IF executable \in DOMAIN disk /\ disk[executable].kind = "file"
           THEN disk' = copy(disk, executable, Binary)
                /\ Proceed("copy", IF platform.tag = "Windows" THEN "rename" ELSE "set_exec")
           ELSE disk' = disk /\ GiveUp("copy", IOFailure("copy"))
    /\ UNCHANGED <<wanted, installInputs>>

\* tokio::fs::copy(executable, binary.clone()).await?
CopyBinary ==
    /\ ipc = "copy"
    /\ LET executable == Extraction \o ExecutableIn(platform, architecture)
       IN  IF executable \in DOMAIN disk /\ disk[executable].kind = "file"
           THEN disk' = copy(disk, executable, Binary) /\ Proceed("copy", "remove_dir")
           ELSE disk' = disk /\ GiveUp("copy", IOFailure("copy"))
    /\ UNCHANGED <<wanted, installInputs>>

\* tokio::fs::remove_dir_all(destination).await?
RemoveExtraction ==
    /\ ipc = "remove_dir"
    /\ disk' = remove_dir_all(disk, Extraction)
    /\ Proceed("remove_dir",
               IF platform.tag = "Linux" THEN "set_exec" ELSE "remove_archive")
    /\ UNCHANGED <<wanted, installInputs>>

\* tokio::fs::remove_file(archive).await?   (Windows and macOS)
RemoveArchive ==
    /\ ipc = "remove_archive"
    /\ disk' = remove_file(disk, Archive)
    /\ Proceed("remove_archive",
               IF platform.tag = "Windows" THEN "rename" ELSE "set_exec")
    /\ UNCHANGED <<wanted, installInputs>>

\* file_system::set_executable(binary.clone())?   (macOS and Linux)
SetExecutable ==
    /\ ipc = "set_exec"
    /\ disk' = set_executable(disk, Binary)
    /\ Proceed("set_exec", "rename")
    /\ UNCHANGED <<wanted, installInputs>>

\* if let Some(name) = custom_name { rename; return Ok(new_path) }  Ok(path)
RenameBinary ==
    /\ ipc = "rename"
    /\ IF custom_name # None
       THEN disk' = rename(disk, Binary, NewPath) /\ Return("rename", NewPath)
       ELSE /\ disk' = disk
            /\ steps' = steps
            /\ ipc' = "done"
            /\ installed' = Installed(Binary)
    /\ UNCHANGED <<wanted, installInputs>>

\* The operating system or the network fails the call of the step: the
\* request for the release or the asset, or a call on the file system.
StepFails ==
    /\ \/ ipc \in {"create_dir", "download", "extract", "copy", "remove_dir",
                   "remove_archive", "set_exec"}
       \/ ipc = "resolve" /\ tool = "youtube"
       \/ ipc = "rename" /\ custom_name # None
    /\ GiveUp(ipc, IF ipc \in {"resolve", "download"} THEN ReqwestFailure
                   ELSE IOFailure(ipc))
    /\ UNCHANGED <<disk, wanted, installInputs>>

\* A release with every asset name, in the order GitHub lists them.
FullRelease ==
    << ReleaseAsset(<<"yt-dlp">>),
       ReleaseAsset(<<"yt-dlp", ".exe">>),
       ReleaseAsset(<<"yt-dlp", "_linux">>),
       ReleaseAsset(<<"yt-dlp", "_linux", "_aarch64">>),
       ReleaseAsset(<<"yt-dlp", "_linux", "_armv7l">>),
       ReleaseAsset(<<"yt-dlp", "_macos">>),
       ReleaseAsset(<<"yt-dlp", "_macos", "_legacy">>),
       ReleaseAsset(<<"yt-dlp", "_x86", ".exe">>) >>

\* An archive with the binary where extract_archive looks for it.
BundleWith(name, exec) ==
    << [name |-> name, is_file |-> TRUE, exec |-> exec, data |-> <<3, 4>>] >>

Bundles ==
    { BundleWith(ExecutableIn(platform, architecture), TRUE),
      BundleWith(ExecutableIn(platform, architecture), FALSE),
      BundleWith(<< <<"ffmpeg-8.0-static">>, <<"ffmpeg">> >>, TRUE) }

\* The path the installation is to return.
FinalPath == IF tool = "youtube" THEN YoutubePath ELSE NewPath

\* The disk before the installation: empty, with the destination directory,
\* or with a file without executable bit where the tool is to be installed.
DisksBefore ==
    { <<>>,
      create_dir_all(<<>>, Libs),
      written(create_dir_all(<<>>, Libs), FinalPath, <<9, 9, 9>>, FALSE) }

InstallInit ==
    /\ platform \in {Platform_detect(os) : os \in OsNames}
    /\ architecture \in {Architecture_detect(arch) : arch \in ArchNames}
    /\ tool \in {"youtube", "ffmpeg"}
    /\ custom_name \in {None, Some(<<"my-tool">>)}
    /\ release \in IF tool = "youtube"
                   THEN {<<>>, FullRelease, SubSeq(FullRelease, 1, 2)}
                   ELSE {<<>>}
    /\ bundle \in IF tool = "ffmpeg" THEN Bundles ELSE {<<>>}
    /\ disk \in DisksBefore
    /\ extracted = NoInstall
    /\ ipc = "create_dir"
    /\ wanted = None
    /\ steps = <<>>
    /\ installed = NoInstall
    /\ picked = NoPick
    /\ resolved = <<>>
    /\ ExecIdle
    /\ FormatIdle
    /\ LaterIdle

InstallNext ==
    \/ CreateDestination
    \/ ResolveAsset
    \/ DownloadAsset
    \/ ExtractArchive
    \/ CopyBinary
    \/ RemoveExtraction
    \/ RemoveArchive
    \/ SetExecutable
    \/ RenameBinary
    \/ StepFails

InstallSpec == InstallInit /\ [][InstallNext]_vars

-----------------------------------------------------------------------------
(* Claims about the installation                                           *)

DefaultName == IF tool = "youtube" THEN <<"yt-dlp">> ELSE <<"ffmpeg">>

\* C12: after install_youtube or install_ffmpeg returned Ok(path), a file
\* exists at path, directly inside the destination directory, named after
\* the custom name if one was given and after the tool otherwise (with .exe
\* on Windows), and with its executable bit set where there is one.
C12_InstalledFileIsExecutable ==
    installed.kind = "Ok" =>
        /\ installed.path \in DOMAIN disk
        /\ disk[installed.path].kind = "file"
        /\ installed.path =
              Append(Libs, IF platform.tag = "Windows"
                           THEN unwrap_or(custom_name, DefaultName) \o <<".exe">>
                           ELSE unwrap_or(custom_name, DefaultName))
        /\ platform.tag # "Windows" => disk[installed.path].exec

\* C13: when extract_binary_for_platform has returned successfully, the
\* archive is gone, the extraction directory is gone, and the binary is in
\* the directory that held the archive.
C13_ArchiveAndExtractionRemoved ==
    (tool = "ffmpeg" /\ ipc = "rename") =>
        /\ Archive \notin DOMAIN disk
        /\ \A q \in DOMAIN disk : ~IsUnder(q, Extraction)
        /\ Binary \in DOMAIN disk
        /\ disk[Binary].kind = "file"

\* The resolve step was attempted and this is how it went.
Resolved == Len(steps) >= 2 /\ steps[2].step = "resolve"

\* The download target is as it was before the installation.
NothingDownloaded ==
    /\ \A i \in 1..Len(steps) : steps[i].step # "download"
    /\ wanted = None
    /\ Archive \notin DOMAIN disk
    /\ YoutubePath \in DOMAIN disk => disk[YoutubePath].data = <<9, 9, 9>>

\* C15: resolution for an unsupported target fails with a typed error that
\* carries the requested pair and starts no download: Error::Binary for
\* every pair outside the static table, Error::Github whenever no asset of
\* the fetched release matches; the two kinds are distinct.
C15_TypedErrorNoDownload ==
    /\ (Resolved /\ tool = "ffmpeg") =>
          /\ steps[2].ok <=> InStaticTable(platform, architecture)
          /\ ~steps[2].ok =>
                /\ installed = [kind |-> "Binary", platform |-> platform,
                                architecture |-> architecture]
                /\ NothingDownloaded
    /\ (Resolved /\ tool = "youtube") =>
          /\ steps[2].ok => Matching # {}
          /\ (~steps[2].ok /\ installed.kind # "Reqwest") =>
                /\ Matching = {}
                /\ installed = [kind |-> "Github", platform |-> platform,
                                architecture |-> architecture]
          /\ ~steps[2].ok => NothingDownloaded
    /\ installed.kind = "Binary" => tool = "ffmpeg" /\ Resolved /\ ~steps[2].ok
    /\ installed.kind = "Github" => tool = "youtube" /\ Resolved /\ ~steps[2].ok

\* yt-dlp was asked for on 32-bit Linux, which no asset of the full release
\* is for, and the ffmpeg case: a pair outside the static table.
C15_Witness ==
    /\ installed.kind = "Github"
    /\ platform.tag = "Linux"
    /\ architecture.tag = "X86"
    /\ release = FullRelease

\* A step of the cleanup failed.
CleanupFailed ==
    \E i \in 1..Len(steps) :
        steps[i].step \in {"remove_dir", "remove_archive"} /\ ~steps[i].ok

\* C19: when the removal of the extraction directory or of the archive
\* fails after the copy, the failure is returned and the install stands:
\* the binary is at its final path, under the custom name if one was given,
\* with its executable bit where there is one.
C19_CleanupFailureKeepsInstall ==
    CleanupFailed =>
        /\ installed.kind = "IO"
        /\ FinalPath \in DOMAIN disk
        /\ disk[FinalPath].data = <<3, 4>>
        /\ platform.tag # "Windows" => disk[FinalPath].exec

StepRank(step) ==
    CASE step = "create_dir" -> 1
      [] step = "resolve" -> 2
      [] step = "download" -> 3
      [] step = "extract" -> 4
      [] step = "copy" -> 5
      [] step = "remove_dir" -> 6
      [] step = "remove_archive" -> 7
      [] step = "set_exec" -> 8
      [] step = "rename" -> 9

\* C20: within one install_ffmpeg run the steps are attempted in the order
\* create directory, resolve, download, extract, copy, remove extraction
\* directory and archive, set executable bit, rename; a step is attempted
\* only after every earlier one succeeded, none of the first six is left
\* out, and a failed step ends the run with an error and is the last one.
C20_StepsInOrder ==
    tool = "ffmpeg" =>
        /\ \A i \in 1..Len(steps) :
              /\ i < Len(steps) => steps[i].ok
              /\ i < Len(steps) => StepRank(steps[i].step) < StepRank(steps[i + 1].step)
              /\ i <= 6 => StepRank(steps[i].step) = i
        /\ (steps # <<>> /\ ~steps[Len(steps)].ok) =>
              /\ ipc = "done"
              /\ installed.kind \notin {"Ok", "none"}
        /\ installed.kind = "Ok" =>
              /\ Len(steps) >= 6
              /\ \A i \in 1..Len(steps) : steps[i].ok
              /\ custom_name # None => steps[Len(steps)].step = "rename"

\* A run on macOS with a custom name went through all nine steps.
C20_Witness ==
    /\ tool = "ffmpeg"
    /\ platform.tag = "Mac"
    /\ installed.kind = "Ok"
    /\ Len(steps) = 9
    /\ custom_name # None

-----------------------------------------------------------------------------
(* The static resolver next to the table of extract_binary_for_platform    *)

\* The operating systems extract_binary_for_platform of BuildFetcher has a
\* #[cfg(target_os)] block for.
TargetOses == {"windows", "macos", "linux"}

\* fetcher::FFmpeg::extract_binary_for_platform, its table: where the binary
\* lies below the extraction directory, or None for Error::Binary.
FFmpeg_executable_in(p, a) ==
    CASE p.tag = "Windows"
           -> Some(<< <<"ffmpeg-7.1-essentials_build">>, <<"bin">>, <<"ffmpeg", ".exe">> >>)
      [] p.tag = "Mac" -> Some(<< <<"ffmpeg">> >>)
      [] p.tag = "Linux"
           -> IF StaticFolder(a) = None THEN None
              ELSE Some(<< StaticFolder(a)[1], <<"ffmpeg">> >>)
      [] OTHER -> None

\* BuildFetcher::extract_binary_for_platform, its table: the block compiled
\* for the target of the build decides, the argument `platform` is unused.
BuildFetcher_executable_in(target_os, p, a) ==
    FFmpeg_executable_in(Platform_detect(target_os), a)

\* Both tables of fetcher::FFmpeg are looked up for the pair.
LookUpFFmpeg ==
    /\ Len(resolved) < MaxCalls
    /\ resolved' = Append(resolved,
                     [by |-> "FFmpeg", target_os |-> "any",
                      ret |-> FFmpeg_select_asset(platform, architecture),
                      executable |-> FFmpeg_executable_in(platform, architecture)])
    /\ UNCHANGED <<platform, architecture, execVars, fmtVars, restVars>>

\* Both tables of BuildFetcher are looked up for the pair, in a build for
\* one of the three targets.
LookUpBuildFetcher ==
    /\ Len(resolved) < MaxCalls
    /\ \E target_os \in TargetOses :
          resolved' = Append(resolved,
                        [by |-> "BuildFetcher", target_os |-> target_os,
                         ret |-> BuildFetcher_select_asset(platform, architecture),
                         executable |-> BuildFetcher_executable_in(target_os, platform,
                                                                   architecture)])
    /\ UNCHANGED <<platform, architecture, execVars, fmtVars, restVars>>

TableNext ==
    \/ LookUpFFmpeg
    \/ LookUpBuildFetcher

TableSpec == AssetInit /\ [][TableNext]_vars

-----------------------------------------------------------------------------
(* Claims about the two tables                                             *)

\* The build the lookup was made in is one for the platform asked for.
OwnTarget(e) ==
    e.target_os = "any" \/ Platform_detect(e.target_os) = platform

\* C27: the static resolver and the extraction table agree: select_asset
\* returns an asset for a pair exactly when extract_binary_for_platform has a
\* binary location for it (does not fail with Error::Binary).
C27_TablesAgree ==
    \A n \in 1..Len(resolved) :
        resolved[n].ret # None <=> resolved[n].executable # None

\* In a build for the platform asked for, a pair with an asset has a binary
\* location.
AssetHasLocation ==
    \A n \in 1..Len(resolved) :
        (OwnTarget(resolved[n]) /\ resolved[n].ret # None)
            => resolved[n].executable # None

-----------------------------------------------------------------------------
(* fetcher::deps::Libraries: install_youtube and install_ffmpeg            *)

MaxInstalls == 2

\* self.youtube or self.ffmpeg; its parent is the destination of the
\* installer.
ConfiguredPath == join(Libs, configured)

\* The file names a Libraries value is configured with: the name of the
\* tool and a name of one's own, each without and with ".exe".
ConfiguredNames(t) ==
    LET default == IF t = "youtube" THEN <<"yt-dlp">> ELSE <<"ffmpeg">>
    IN  {default, default \o <<".exe">>, <<"custom">>, <<"custom", ".exe">>}

\* let name = utils::find_executable("yt-dlp"); let file_name = try_name(..)?;
\* let custom_name = ternary!(file_name == name, None, Some(file_name));
custom_name_of(host, t, file_name) ==
    LET name == find_executable(host, IF t = "youtube" THEN <<"yt-dlp">> ELSE <<"ffmpeg">>)
    IN  IF file_name = name THEN None ELSE Some(file_name)

librariesOutside == <<tool, bundle, extracted, platform, architecture, resolved,
                      release, picked, execVars, fmtVars, joinVars, fetchVars,
                      downloadVars>>

\* Libraries::install_youtube / install_ffmpeg up to the call of the
\* installer: the configured path is returned when something exists there.
EnterLibraries ==
    /\ ipc = "libraries"
    /\ IF ConfiguredPath \in DOMAIN disk
       THEN /\ ipc' = "done"
            /\ installed' = Installed(ConfiguredPath)
            /\ custom_name' = custom_name
       ELSE /\ ipc' = "create_dir"
            /\ installed' = installed
            /\ custom_name' = custom_name_of(platform, tool, configured)
    /\ UNCHANGED <<disk, wanted, steps, librariesVars, librariesOutside>>

\* The same Libraries value is asked to install once more.
InstallAgain ==
    /\ ipc = "done"
    /\ Len(earlier) < MaxInstalls - 1
    /\ earlier' = Append(earlier, [ret |-> installed, steps |-> steps])
    /\ before' = disk
    /\ ipc' = "libraries"
    /\ steps' = <<>>
    /\ installed' = NoInstall
    /\ wanted' = None
    /\ custom_name' = None
    /\ UNCHANGED <<disk, configured, librariesOutside>>

LibrariesInit ==
    /\ platform \in {Platform_detect(os) : os \in OsNames}
    /\ architecture \in {Architecture_detect(arch) : arch \in ArchNames}
    /\ tool \in {"youtube", "ffmpeg"}
    /\ configured \in ConfiguredNames(tool)
    /\ custom_name = None
    /\ release \in IF tool = "youtube"
                   THEN {<<>>, FullRelease, SubSeq(FullRelease, 1, 2)}
                   ELSE {<<>>}
    /\ bundle \in IF tool = "ffmpeg" THEN Bundles ELSE {<<>>}
    /\ disk \in { <<>>,
                  create_dir_all(<<>>, Libs),
                  written(create_dir_all(<<>>, Libs), ConfiguredPath, <<9, 9, 9>>, TRUE) }
    /\ before = disk
    /\ earlier = <<>>
    /\ extracted = NoInstall
    /\ ipc = "libraries"
    /\ wanted = None
    /\ steps = <<>>
    /\ installed = NoInstall
    /\ picked = NoPick
    /\ resolved = <<>>
    /\ ExecIdle
    /\ FormatIdle
    /\ JoinIdle
    /\ FetchIdle
    /\ DownloadIdle

LibrariesNext ==
    \/ EnterLibraries
    \/ InstallAgain
    \/ InstallNext

LibrariesSpec == LibrariesInit /\ [][LibrariesNext]_vars

-----------------------------------------------------------------------------
(* Claims about Libraries                                                  *)

\* C26: when install_youtube or install_ffmpeg of Libraries returns Ok(p),
\* p is the configured path and a file exists there, for every configured
\* file name on every platform, names that end in .exe on Windows included.
C26_ReturnsConfiguredPath ==
    (ipc = "done" /\ installed.kind = "Ok") =>
        /\ installed.path = ConfiguredPath
        /\ ConfiguredPath \in DOMAIN disk

\* The call at hand resolved, downloaded, extracted and changed nothing.
DidNothing == steps = <<>> /\ disk = before

\* C30: installing is idempotent: when something exists at the configured
\* path the call returns that path and does nothing else, and a call that
\* follows a successful one on the same Libraries value does nothing.
C30_Idempotent ==
    ipc = "done" =>
        /\ ConfiguredPath \in DOMAIN before
              => installed = Installed(ConfiguredPath) /\ DidNothing
        /\ (earlier # <<>> /\ earlier[Len(earlier)].ret.kind = "Ok") => DidNothing

-----------------------------------------------------------------------------
(* Youtube::download_video                                                 *)

\* The calls of download_video that run on one Youtube value.
Calls == {1, 2}

\* A file name is a sequence of tokens, "." a token of its own.
OutputDir == << <<"output">> >>

\* The `output` arguments: relative paths of one or two components.
Outputs ==
    { << <<"a", ".", "mp4">> >>,
      << <<"a", ".", "mkv">> >>,
      << <<"b", ".", "mp4">> >>,
      << <<"a", ".", "b", ".", "mp4">> >>,
      << <<"sub">>, <<"a", ".", "mp4">> >>,
      << <<"audio-", "a", ".", "mp3">> >>,
      << <<"video-", "a", ".", "mp4">> >>,
      << <<"..">> >> }

\* Err(Error::Path(msg))
PathFailure(msg) == [kind |-> "Path", msg |-> msg]

\* The error download_audio_stream or download_video_stream returned.
DownloadFailure(op) == [kind |-> "Download", of |-> op]

\* file_system::try_name: Path::file_name is None for a path that ends in ".."
try_name(path) ==
    IF path = <<>> \/ path[Len(path)] = <<"..">> THEN None
    ELSE Some(path[Len(path)])

\* name.split('.').next(): what stands before the first "."
RECURSIVE UpToDot(_, _)
UpToDot(name, i) ==
    IF i > Len(name) \/ name[i] = "." THEN <<>>
    ELSE <<name[i]>> \o UpToDot(name, i + 1)

\* file_system::try_without_extension
try_without_extension(path) ==
    LET name == try_name(path)
    IN  IF name = None THEN None ELSE Some(UpToDot(name[1], 1))

\* format!("audio-{}.mp3", file_name) and format!("video-{}.mp4", file_name)
audio_name_of(file_name) == <<"audio-">> \o file_name \o <<".", "mp3">>

video_name_of(file_name) == <<"video-">> \o file_name \o <<".", "mp4">>

downloadOutside == <<execVars, fmtVars, assetVars, releaseVars, installVars,
                     joinVars, fetchVars, librariesVars>>

\* let output_path = ..; let file_name = try_without_extension(..)?; and the
\* two names made of it
NameFiles(c) ==
    /\ dl[c].pc = "name"
    /\ LET file_name == try_without_extension(OutputDir \o dl[c].output)
       IN  dl' = IF file_name = None
                 THEN [dl EXCEPT ![c].pc = "done",
                                 ![c].ret = PathFailure("Failed to get name")]
                 ELSE [dl EXCEPT ![c].pc = "audio",
                                 ![c].audio_name = audio_name_of(file_name[1]),
                                 ![c].video_name = video_name_of(file_name[1])]
    /\ UNCHANGED <<log, downloadOutside>>

\* The audio download returning an error, the combine step run all the same.
DownloadAudioStreamUnchecked(c) ==
    /\ dl[c].pc = "audio"
    /\ \E ok \in BOOLEAN :
          /\ log' = Append(log, [call |-> c, op |-> "audio", ok |-> ok,
                                 file |-> join(OutputDir, dl[c].audio_name)])
          /\ dl' = [dl EXCEPT ![c].pc = "video"]
    /\ UNCHANGED downloadOutside

\* self.download_audio_stream(video, &audio_name).await?
DownloadAudioStream(c) ==
    /\ dl[c].pc = "audio"
    /\ \E ok \in BOOLEAN :
          /\ log' = Append(log, [call |-> c, op |-> "audio", ok |-> ok,
                                 file |-> join(OutputDir, dl[c].audio_name)])
          /\ dl' = IF ok THEN [dl EXCEPT ![c].pc = "video"]
                    ELSE [dl EXCEPT ![c].pc = "done",
                                    ![c].ret = DownloadFailure("audio")]
    /\ UNCHANGED downloadOutside

\* self.download_video_stream(video, &video_name).await?
DownloadVideoStream(c) ==
    /\ dl[c].pc = "video"
    /\ \E ok \in BOOLEAN :
          /\ log' = Append(log, [call |-> c, op |-> "video", ok |-> ok,
                                 file |-> join(OutputDir, dl[c].video_name)])
          /\ dl' = IF ok THEN [dl EXCEPT ![c].pc = "combine"]
                    ELSE [dl EXCEPT ![c].pc = "done",
                                    ![c].ret = DownloadFailure("video")]
    /\ UNCHANGED downloadOutside

\* self.combine_audio_and_video(&audio_name, &video_name, output).await
CombineAudioAndVideo(c) ==
    /\ dl[c].pc = "combine"
    /\ \E ok \in BOOLEAN :
          /\ log' = Append(log, [call |-> c, op |-> "combine", ok |-> ok,
                                 file |-> OutputDir \o dl[c].output])
          /\ dl' = [dl EXCEPT ![c].pc = "done",
                              ![c].ret = IF ok THEN Installed(OutputDir \o dl[c].output)
                                         ELSE CommandError("Process failed with code")]
    /\ UNCHANGED downloadOutside

DownloadInit ==
    /\ dl \in [Calls -> [output : Outputs, pc : {"name"}, audio_name : {<<>>},
                         video_name : {<<>>}, ret : {NoInstall}]]
    /\ log = <<>>
    /\ LibrariesIdle
    /\ JoinIdle
    /\ FetchIdle
    /\ InstallIdle
    /\ ReleaseIdle
    /\ AssetIdle
    /\ ExecIdle
    /\ FormatIdle

DownloadNext ==
    \E c \in Calls :
        \/ NameFiles(c)
        \/ DownloadAudioStream(c)
        \/ DownloadVideoStream(c)
        \/ CombineAudioAndVideo(c)

DownloadSpec == DownloadInit /\ [][DownloadNext]_vars

-----------------------------------------------------------------------------
(* Claims about download_video                                             *)

\* The positions of the log where call c did `op` with outcome `ok`.
Did(c, op, ok) ==
    {k \in 1..Len(log) : log[k].call = c /\ log[k].op = op /\ log[k].ok = ok}

\* C21: the combine step of a call starts only after its audio download and
\* its video download have completed successfully; when one of the two
\* downloads fails, the combine step is never run and download_video returns
\* the error of the download that failed.
C21_CombineAfterBothDownloads ==
    \A c \in Calls :
        /\ \A k \in Did(c, "combine", TRUE) \cup Did(c, "combine", FALSE) :
               /\ \E a \in Did(c, "audio", TRUE) : a < k
               /\ \E v \in Did(c, "video", TRUE) : v < k
        /\ \A op \in {"audio", "video"} :
               Did(c, op, FALSE) # {} =>
                  /\ Did(c, "combine", TRUE) \cup Did(c, "combine", FALSE) = {}
                  /\ dl[c].pc = "done"
                  /\ dl[c].ret = DownloadFailure(op)

\* One call combined its two streams; the other stopped at its failed video
\* download, after a successful audio download.
C21_Witness ==
    /\ Did(1, "combine", TRUE) # {}
    /\ Did(2, "audio", TRUE) # {}
    /\ Did(2, "video", FALSE) # {}
    /\ dl[2].ret = DownloadFailure("video")
    /\ dl[1].ret.kind = "Ok"

\* The intermediate files of a call, once it has named them.
Intermediates(c) ==
    IF dl[c].pc = "name" \/ dl[c].audio_name = <<>> THEN {}
    ELSE {join(OutputDir, dl[c].audio_name), join(OutputDir, dl[c].video_name)}

\* C29: two calls with distinct outputs derive distinct intermediate file
\* names, so they never write the same intermediate file, and no
\* intermediate file of a call is the output file of that call.
C29_DistinctIntermediates ==
    /\ \A c, d \in Calls :
          dl[c].output # dl[d].output => Intermediates(c) \cap Intermediates(d) = {}
    /\ \A c \in Calls : (OutputDir \o dl[c].output) \notin Intermediates(c)

\* No intermediate file of a call is the output file of that call.
NotOwnOutput ==
    \A c \in Calls : (OutputDir \o dl[c].output) \notin Intermediates(c)

-----------------------------------------------------------------------------
(* utils::await_two                                                         *)

\* What a task ends with: Ok(value), Err(error), or a panic, which its
\* JoinHandle gives as a JoinError.
TaskOk(v) == [kind |-> "Ok", value |-> v]

TaskErr(i) == [kind |-> "Err", of |-> i]

TaskPanic(i) == [kind |-> "Panic", of |-> i]

TaskOutputs(i) == {TaskOk(1), TaskOk(2), TaskErr(i), TaskPanic(i)}

\* Error::Runtime(JoinError) of handle i, and the error task i returned
RuntimeFailure(i) == [kind |-> "Runtime", of |-> i]

TaskFailure(i) == [kind |-> "Task", of |-> i]

\* One handle polled by try_join!: a finished task is taken into its slot;
\* a JoinError ends the join.
PollHandle(i, slot) ==
    IF slot # None \/ ~handles[i].done THEN [slot |-> slot, err |-> None]
    ELSE IF handles[i].output.kind = "Panic"
         THEN [slot |-> slot, err |-> Some(RuntimeFailure(i))]
    ELSE [slot |-> Some(handles[i].output), err |-> None]

\* let first = first_result?; let second = second_result?; Ok((first, second))
Unwrapped(first_result, second_result) ==
    IF first_result.kind = "Err" THEN TaskFailure(1)
    ELSE IF second_result.kind = "Err" THEN TaskFailure(2)
    ELSE [kind |-> "Ok", first |-> first_result.value, second |-> second_result.value]

JoinInit ==
    /\ handles \in [{1, 2} -> [done : {FALSE}, output : TaskOutputs(1) \cup TaskOutputs(2)]]
    /\ handles[1].output \in TaskOutputs(1)
    /\ handles[2].output \in TaskOutputs(2)
    /\ finished = <<>>
    /\ joined_first = None
    /\ joined_second = None
    /\ awaited = NoInstall
    /\ LastIdle
    /\ FetchIdle
    /\ InstallIdle
    /\ ReleaseIdle
    /\ AssetIdle
    /\ ExecIdle
    /\ FormatIdle

joinOutside == <<lastVars, fetchVars, installVars, releaseVars, assetVars, execVars, fmtVars>>

\* A spawned task runs to its end.
TaskFinishes ==
    /\ \E i \in {1, 2} :
          /\ ~handles[i].done
          /\ handles' = [handles EXCEPT ![i].done = TRUE]
          /\ finished' = Append(finished, i)
    /\ UNCHANGED <<joined_first, joined_second, awaited, joinOutside>>

\* await_two is polled: try_join! polls the handles it does not hold yet,
\* starting with either of them, and the rest of await_two runs once it
\* holds both.
PollJoin ==
    /\ awaited = NoInstall
    /\ \E start \in {1, 2} :
          LET p1 == PollHandle(1, joined_first)
              p2 == PollHandle(2, joined_second)
              a == IF start = 1 THEN p1 ELSE p2
              b == IF start = 1 THEN p2 ELSE p1
          IN  IF a.err # None
              THEN /\ awaited' = a.err[1]
                   /\ UNCHANGED <<joined_first, joined_second>>
              ELSE IF b.err # None
              THEN /\ awaited' = b.err[1]
                   /\ joined_first' = IF start = 1 THEN p1.slot ELSE joined_first
                   /\ joined_second' = IF start = 2 THEN p2.slot ELSE joined_second
              ELSE /\ joined_first' = p1.slot
                   /\ joined_second' = p2.slot
                   /\ awaited' = IF p1.slot # None /\ p2.slot # None
                                 THEN Unwrapped(p1.slot[1], p2.slot[1])
                                 ELSE awaited
    /\ UNCHANGED <<handles, finished, joinOutside>>

JoinNext ==
    \/ TaskFinishes
    \/ PollJoin

JoinSpec == JoinInit /\ [][JoinNext]_vars

-----------------------------------------------------------------------------
(* Claims about await_two                                                  *)

Failing(i) == handles[i].output.kind \in {"Err", "Panic"}

\* C16: await_two returns Ok((a, b)) exactly when both tasks completed with
\* Ok(a) and Ok(b); when a task returned an error or failed to join it
\* returns an error of a task that failed, and when both failed, the error
\* of the task that failed first.
C16_FirstFailureWins ==
    awaited # NoInstall =>
        /\ awaited.kind = "Ok" <=>
              \A i \in {1, 2} : handles[i].done /\ handles[i].output.kind = "Ok"
        /\ awaited.kind = "Ok" =>
              /\ awaited.first = handles[1].output.value
              /\ awaited.second = handles[2].output.value
        /\ awaited.kind # "Ok" =>
              /\ handles[awaited.of].done
              /\ Failing(awaited.of)
              /\ awaited.kind = "Runtime" <=> handles[awaited.of].output.kind = "Panic"
        /\ (\A i \in {1, 2} : handles[i].done /\ Failing(i)) =>
              awaited.of = finished[1]

\* try_join! holds the output of a task that returned an error.
HoldsError(slot) == slot # None /\ slot[1].kind = "Err"

\* C22: await_two short-circuits on error: once it has seen one task finish
\* with an error it has returned, whether or not the other task has
\* finished, in every interleaving of the two tasks.
C22_ShortCircuitOnError ==
    (HoldsError(joined_first) \/ HoldsError(joined_second))
        => awaited # NoInstall

-----------------------------------------------------------------------------
(* fetcher::Fetcher::fetch_asset, chunk by chunk                            *)

MaxBody == 3

MaxOld == 3

RECURSIVE SeqsUpTo(_, _)
SeqsUpTo(S, n) ==
    IF n = 0 THEN {<<>>}
    ELSE LET shorter == SeqsUpTo(S, n - 1)
         IN  shorter \cup {Append(q, x) : q \in shorter, x \in S}

\* The destination handed to fetch_asset.
Target == join(Libs, <<"video", ".mp4">>)

\* Write::write_all at the offset of the file: bytes there are overwritten,
\* bytes behind them stay.
write_at(old, pos, chunk) ==
    SubSeq(old, 1, pos) \o chunk \o SubSeq(old, pos + Len(chunk) + 1, Len(old))

FetchInit ==
    /\ stream \in [body : SeqsUpTo({1, 2}, MaxBody), sent : {0}]
    /\ disk \in {<<>>, create_dir_all(<<>>, Libs)}
                \cup {written(create_dir_all(<<>>, Libs), Target, old, FALSE) :
                        old \in SeqsUpTo({9}, MaxOld) \ {<<>>}}
    /\ fpc = "get"
    /\ cursor = 0
    /\ fetched = NoInstall
    /\ tool = "none"
    /\ custom_name = <<>>
    /\ bundle = <<>>
    /\ extracted = NoInstall
    /\ ipc = "idle"
    /\ wanted = <<>>
    /\ steps = <<>>
    /\ installed = NoInstall
    /\ LastIdle
    /\ JoinIdle
    /\ ReleaseIdle
    /\ AssetIdle
    /\ ExecIdle
    /\ FormatIdle

fetchOutside == <<tool, custom_name, bundle, extracted, ipc, wanted, steps, installed,
                  lastVars, joinVars, releaseVars, assetVars, execVars, fmtVars>>

\* reqwest::get(&self.url).await?.error_for_status()?
GetResponse ==
    /\ fpc = "get"
    /\ fpc' = "open"
    /\ UNCHANGED <<stream, cursor, fetched, disk, fetchOutside>>

\* create_dir_all(parent) and file_system::create_file(destination)?
OpenDestination ==
    /\ fpc = "open"
    /\ LET r == fetch_asset(disk, Target, <<>>, platform.tag # "Windows")
       IN  /\ disk' = r.disk
           /\ IF r.err # None
              THEN fpc' = "done" /\ fetched' = r.err[1]
              ELSE fpc' = "copy" /\ fetched' = fetched
    /\ cursor' = 0
    /\ UNCHANGED <<stream, fetchOutside>>

\* while let Some(chunk) = stream.next().await { dest.write_all(&chunk)? }
WriteChunk ==
    /\ fpc = "copy"
    /\ \E n \in 1..(Len(stream.body) - stream.sent) :
          LET chunk == SubSeq(stream.body, stream.sent + 1, stream.sent + n)
          IN  /\ disk' = [disk EXCEPT ![Target].data = write_at(@, cursor, chunk)]
              /\ cursor' = cursor + n
              /\ stream' = [stream EXCEPT !.sent = @ + n]
    /\ UNCHANGED <<fpc, fetched, fetchOutside>>

\* the stream ends: Ok(())
StreamEnds ==
    /\ fpc = "copy"
    /\ stream.sent = Len(stream.body)
    /\ fpc' = "done"
    /\ fetched' = [kind |-> "Ok"]
    /\ UNCHANGED <<stream, cursor, disk, fetchOutside>>

\* the request, a chunk of the stream or a write fails
FetchFails ==
    /\ fpc \in {"get", "copy"}
    /\ fpc' = "done"
    /\ fetched' \in IF fpc = "get" THEN {ReqwestFailure}
                    ELSE {ReqwestFailure, IOFailure("write_all")}
    /\ UNCHANGED <<stream, cursor, disk, fetchOutside>>

FetchNext ==
    \/ GetResponse
    \/ OpenDestination
    \/ WriteChunk
    \/ StreamEnds
    \/ FetchFails

FetchSpec == FetchInit /\ [][FetchNext]_vars

-----------------------------------------------------------------------------
(* Claims about fetch_asset                                                *)

\* C17: after fetch_asset returned Ok, the file at the destination holds
\* exactly the bytes of the response body, in order, and nothing else,
\* whether or not a file was there before.
C17_FileIsExactlyTheBody ==
    fetched.kind = "Ok" =>
        /\ Target \in DOMAIN disk
        /\ disk[Target].kind = "file"
        /\ disk[Target].data = stream.body

=============================================================================
